---------------------------- MODULE Spec2Model ----------------------------
(***************************************************************************)
(* The chat pipeline of the AI coding tutor backend: one websocket         *)
(* connection of websocket_chat (backend/app/routers/chat.py) running over *)
(* the chat store (backend/app/services/chat_service.py) and the upload    *)
(* lookup (backend/app/services/upload_service.py).                        *)
(*                                                                         *)
(* Texts are represented by their length in characters, which is all that  *)
(* the token estimate max(1, len // 4) reads.  Effective levels are kept   *)
(* in hundredths (3.0 is 300).  Python's None is the integer None.         *)
(***************************************************************************)
EXTENDS Integers, Sequences, FiniteSets, TLC

\* ---------------------------------------------------------------- bounds
MaxFrames == 2
MaxChunks == 2
MaxDay == 1
MaxFiles == 3
MaxCalls == 1
MaxTurns == 1
MaxHistory == 3
MaxCallers == 4
MaxLines == 3

\* ------------------------------------------------------- program settings
upload_max_images_per_message == 2
upload_max_documents_per_message == 1
llm_max_user_input_tokens == 600
user_daily_input_token_limit == 520
user_daily_output_token_limit == 3
ImageTokenCost == 512

None == -1

Max(a, b) == IF a >= b THEN a ELSE b
Min(a, b) == IF a <= b THEN a ELSE b

Range(seq) == {seq[i] : i \in DOMAIN seq}

RECURSIVE SumSeq(_)
SumSeq(s) == IF s = <<>> THEN 0 ELSE Head(s) + SumSeq(Tail(s))

\* ------------------------------------------------------------------ texts
Text(kind, len) == [kind |-> kind, len |-> len]
NoText == Text("none", 0)
EmptyText == Text("empty", 0)
SentAttachmentsText == Text("Sent attachments.", 17)
AnalyseFilesText == Text("Please analyse the attached files.", 34)

\* LLMProvider.count_tokens: max(1, len(text) // 4)
\* a counter that rounds up
count_tokens_RoundsUp(len) == Max(1, (len + 3) \div 4)

count_tokens(len) == Max(1, len \div 4)

\* ------------------------------------------------------------------ users
TheUser == "u1"
OtherUser == "u2"
Users == {TheUser, OtherUser}
\* self-reported levels of the user rows (1..5)
programming_level == 3
maths_level == 2

\* ----------------------------------------------------------------- tokens
\* A handshake token: whether decode_token accepts it (signature and expiry)
\* and the payload it decodes to.
Tokens ==
    [decodes : BOOLEAN, token_type : {"access", "refresh"}, sub : {"", TheUser, "ghost"}]

\* an authentication that accepts every token type
_authenticate_ws_AnyType(tk) ==
    IF ~tk.decodes THEN ""
    ELSE IF tk.sub = "" THEN ""
    ELSE IF tk.sub \in Users THEN tk.sub ELSE ""

\* _authenticate_ws: the user of the token, or "" for None
_authenticate_ws(tk) ==
    IF ~tk.decodes THEN ""
    ELSE IF tk.token_type # "access" THEN ""
    ELSE IF tk.sub = "" THEN ""
    ELSE IF tk.sub \in Users THEN tk.sub ELSE ""

\* ---------------------------------------------------------------- uploads
\* The UploadedFile rows the frames can name.  expires_at is a day number.
UploadedFiles ==
    [img1 |-> [user_id |-> TheUser, file_type |-> "image", expires_at |-> 9,
               filename_len |-> 5, text_len |-> 0],
     img2 |-> [user_id |-> TheUser, file_type |-> "image", expires_at |-> 9,
               filename_len |-> 5, text_len |-> 0],
     doc1 |-> [user_id |-> TheUser, file_type |-> "document", expires_at |-> 9,
               filename_len |-> 6, text_len |-> 40],
     doc2 |-> [user_id |-> TheUser, file_type |-> "document", expires_at |-> 9,
               filename_len |-> 6, text_len |-> 0],
     old1 |-> [user_id |-> TheUser, file_type |-> "document", expires_at |-> 0,
               filename_len |-> 6, text_len |-> 12],
     othr |-> [user_id |-> OtherUser, file_type |-> "image", expires_at |-> 9,
               filename_len |-> 5, text_len |-> 0]]

\* strings that uuid.UUID() accepts: the stored ids and one id of no row
WellFormedIds == DOMAIN UploadedFiles \cup {"gone"}

get_upload_slot_limits == <<upload_max_images_per_message, upload_max_documents_per_message>>

\* _parse_upload_ids: the well-formed ids among the first max_items entries
_parse_upload_ids(raw) ==
    IF ~raw.is_list THEN <<>>
    ELSE LET max_items == upload_max_images_per_message + upload_max_documents_per_message
             head == SubSeq(raw.ids, 1, Min(Len(raw.ids), max_items))
         IN  SelectSeq(head, LAMBDA id : id \in WellFormedIds)

\* a lookup by id alone
get_user_uploads_by_ids_AnyOwner(user_id, upload_ids, now) ==
    SelectSeq(upload_ids,
              LAMBDA id : id \in DOMAIN UploadedFiles /\ UploadedFiles[id].expires_at >= now)

\* get_session_messages, the attachments of one message: the ids of the
\* message that are in attachment_map, the rows of the user unexpired at the call
message_attachments(user_id, attachment_ids, now) ==
    LET attachment_map ==
            {id \in DOMAIN UploadedFiles :
                /\ id \in Range(attachment_ids)
                /\ UploadedFiles[id].user_id = user_id
                /\ UploadedFiles[id].expires_at >= now}
    IN  SelectSeq(attachment_ids, LAMBDA item_id : item_id \in attachment_map)

\* get_user_uploads_by_ids: rows of the user, unexpired, in request order
get_user_uploads_by_ids(user_id, upload_ids, now) ==
    SelectSeq(upload_ids,
              LAMBDA id : /\ id \in DOMAIN UploadedFiles
                          /\ UploadedFiles[id].user_id = user_id
                          /\ UploadedFiles[id].expires_at >= now)

\* _split_uploads
_split_uploads(uploads) ==
    <<SelectSeq(uploads, LAMBDA id : UploadedFiles[id].file_type = "image"),
      SelectSeq(uploads, LAMBDA id : UploadedFiles[id].file_type # "image")>>

\* a validation that never raises
_validate_upload_mix_Never(image_uploads, document_uploads) == FALSE

\* _validate_upload_mix: TRUE when it raises HTTPException
_validate_upload_mix(image_uploads, document_uploads) ==
    \/ Len(image_uploads) > get_upload_slot_limits[1]
    \/ Len(document_uploads) > get_upload_slot_limits[2]

\* _build_enriched_message: the length of the enriched text
RECURSIVE DocParts(_)
DocParts(docs) ==
    IF docs = <<>> THEN <<>>
    ELSE LET d == UploadedFiles[Head(docs)]
         IN  (IF d.text_len = 0 THEN <<>>
              ELSE <<20 + d.filename_len + 2 + d.text_len>>) \o DocParts(Tail(docs))

_build_enriched_message(user_len, document_uploads) ==
    LET parts == (IF user_len > 0 THEN <<user_len>> ELSE <<>>) \o DocParts(document_uploads)
    IN  IF parts = <<>> THEN AnalyseFilesText.len
        ELSE SumSeq(parts) + 2 * (Len(parts) - 1)

\* ----------------------------------------------------------------- frames
NoSessionId == 0
BadSessionId == -2
ForeignSession == 1

\* str(data.get("content", "")).strip(): a blank text strips to nothing
Strip(content) == IF content.kind = "blank" THEN 0 ELSE content.len

Frame(json_ok, content, session_id, is_list, ids) ==
    [json_ok |-> json_ok, content |-> content, session_id |-> session_id,
     upload_ids |-> [is_list |-> is_list, ids |-> ids]]

Question == Text("question", 8)
Blank == Text("blank", 3)

\* The frames a client sends: one of each kind the handler tells apart.
\* json_ok = FALSE stands for text that json.loads rejects and for JSON
\* that is not an object (data.get raises AttributeError).
Frames ==
    { Frame(FALSE, NoText, NoSessionId, TRUE, <<>>),
      Frame(TRUE, Blank, NoSessionId, TRUE, <<>>),
      Frame(TRUE, Question, NoSessionId, TRUE, <<>>),
      Frame(TRUE, Question, 2, TRUE, <<>>),
      Frame(TRUE, Question, ForeignSession, FALSE, <<"img1">>),
      Frame(TRUE, NoText, BadSessionId, TRUE, <<"img1">>),
      Frame(TRUE, Question, 2, TRUE, <<"doc1">>),
      Frame(TRUE, Question, NoSessionId, TRUE, <<"img1", "img2">>),
      Frame(TRUE, Question, NoSessionId, TRUE, <<"doc1", "doc2">>),
      Frame(TRUE, Question, NoSessionId, TRUE, <<"img1", "img2", "doc1", "doc2">>),
      Frame(TRUE, Question, NoSessionId, TRUE, <<"img1", "not-a-uuid">>),
      Frame(TRUE, Question, NoSessionId, TRUE, <<"othr">>),
      Frame(TRUE, Question, NoSessionId, TRUE, <<"gone">>),
      Frame(TRUE, Question, NoSessionId, TRUE, <<"old1">>) }

NoFrame == Frame(FALSE, NoText, NoSessionId, FALSE, <<>>)

\* ------------------------------------------------------------- chat store
UsageRowOf(rows, user_id, day) ==
    CHOOSE r \in rows : r.user_id = user_id /\ r.date = day

\* get_daily_usage: the rows after the call (today's row is created at 0/0)
get_daily_usage(rows, user_id, day) ==
    IF \E r \in rows : r.user_id = user_id /\ r.date = day THEN rows
    ELSE rows \cup {[user_id |-> user_id, date |-> day,
                     input_tokens_used |-> 0, output_tokens_used |-> 0]}

\* a check that lets a counter equal to its limit pass
check_daily_limit_OffByOne(rows, user_id, day) ==
    LET usage == UsageRowOf(get_daily_usage(rows, user_id, day), user_id, day)
    IN  /\ usage.input_tokens_used <= user_daily_input_token_limit
        /\ usage.output_tokens_used <= user_daily_output_token_limit

\* check_daily_limit: TRUE when the user is within both limits
check_daily_limit(rows, user_id, day) ==
    LET usage == UsageRowOf(get_daily_usage(rows, user_id, day), user_id, day)
        input_ok == usage.input_tokens_used < user_daily_input_token_limit
        output_ok == usage.output_tokens_used < user_daily_output_token_limit
    IN  input_ok /\ output_ok

\* an increment that forgets the output tokens
increment_token_usage_InputOnly(rows, user_id, day, input_tokens, output_tokens) ==
    LET rows1 == get_daily_usage(rows, user_id, day)
        usage == UsageRowOf(rows1, user_id, day)
    IN  (rows1 \ {usage}) \cup
        {[usage EXCEPT !.input_tokens_used = @ + input_tokens]}

\* increment_token_usage: the rows after the call
increment_token_usage(rows, user_id, day, input_tokens, output_tokens) ==
    LET rows1 == get_daily_usage(rows, user_id, day)
        usage == UsageRowOf(rows1, user_id, day)
    IN  (rows1 \ {usage}) \cup
        {[usage EXCEPT !.input_tokens_used = @ + input_tokens,
                       !.output_tokens_used = @ + output_tokens]}

\* a lookup by id alone, without the owner
get_or_create_session_AnyOwner(sessions, user_id, session_id) ==
    IF session_id # None /\ session_id \in DOMAIN sessions
    THEN <<sessions, session_id>>
    ELSE <<Append(sessions, user_id), Len(sessions) + 1>>

\* get_or_create_session: <<sessions after the call, id of the session>>
get_or_create_session(sessions, user_id, session_id) ==
    IF /\ session_id # None
       /\ session_id \in DOMAIN sessions
       /\ sessions[session_id] = user_id
    THEN <<sessions, session_id>>
    ELSE <<Append(sessions, user_id), Len(sessions) + 1>>

ChatMessage(turn_id, session_id, role, content, hint, pdiff, mdiff, intok, outtok, atts) ==
    [turn |-> turn_id, session_id |-> session_id, role |-> role, content |-> content,
     hint_level_used |-> hint, problem_difficulty |-> pdiff, maths_difficulty |-> mdiff,
     input_tokens |-> intok, output_tokens |-> outtok, attachments |-> atts]

\* save_message: the messages after the insert
save_message(msgs, m) == Append(msgs, m)

\* get_chat_history: the messages of the session, oldest first
get_chat_history(msgs, session_id) ==
    SelectSeq(msgs, LAMBDA m : m.session_id = session_id)

\* ----------------------------------------------------------------- events
Event(type) ==
    [type |-> type, message |-> "", content |-> NoText, filter |-> "",
     session_id |-> None, hint_level |-> None,
     programming_difficulty |-> None, maths_difficulty |-> None]

ErrorEvent(message) == [Event("error") EXCEPT !.message = message]
\* a session event without the id
SessionEvent_NoId(id) == Event("session")

SessionEvent(id) == [Event("session") EXCEPT !.session_id = id]
\* a token event that carries no text
TokenEvent_Blank(len) == [Event("token") EXCEPT !.content = Text("chunk", 0)]

TokenEvent(len) == [Event("token") EXCEPT !.content = Text("chunk", len)]
CannedEvent(content, filter) ==
    [Event("canned") EXCEPT !.content = content, !.filter = filter]
\* a done event that carries the hint level alone
DoneEvent_HintOnly(result) == [Event("done") EXCEPT !.hint_level = result.hint_level]

DoneEvent(result) ==
    [Event("done") EXCEPT !.hint_level = result.hint_level,
                          !.programming_difficulty = result.programming_difficulty,
                          !.maths_difficulty = result.maths_difficulty]

MsgInvalidFormat == "Invalid message format"
MsgTooManyFiles == "Too many files. You can upload up to N photos and M files per message."
MsgInvalidReference == "Invalid attachment reference format."
MsgDailyLimit == "Daily token limit reached. Try again tomorrow."
MsgInaccessible == "One or more attachments are invalid, expired, or inaccessible."
MsgFilesTooLarge == "Files are too large for one message. Please split them and try again."
MsgUnavailable == "AI service temporarily unavailable. Please try again."
MsgServiceUnavailable == "Service unavailable"
MsgInternal == "Internal error"

\* the error messages that contain the word "limit"
MentionsLimit(message) == message = MsgDailyLimit

\* --------------------------------------------------------------- pedagogy
NoDecision ==
    [filter_result |-> "", canned_response |-> NoText, hint_level |-> None,
     programming_difficulty |-> None, maths_difficulty |-> None]

OnTopicDecisions ==
    { [NoDecision EXCEPT !.hint_level = 2, !.programming_difficulty = 4,
                         !.maths_difficulty = 1] }

CannedDecisions ==
    { [NoDecision EXCEPT !.filter_result = "greeting",
                         !.canned_response = Text("canned greeting", 30)],
      [NoDecision EXCEPT !.filter_result = "off_topic",
                         !.canned_response = Text("canned off-topic", 40)] }

\* PedagogyEngine.process_message: the decisions it can return
process_message(enable_topic_filters) ==
    IF enable_topic_filters THEN OnTopicDecisions \cup CannedDecisions
    ELSE OnTopicDecisions

\* the drift of an effective level (hundredths) toward a difficulty 1..5
DriftStep == 5
Drift(level, difficulty) ==
    LET target == difficulty * 100
        moved == IF target > level THEN level + DriftStep
                 ELSE IF target < level THEN level - DriftStep ELSE level
    IN  Max(100, Min(500, moved))

\* PedagogyEngine.update_context_embedding and the level update of the turn
update_context_embedding(state, result, turn_id) ==
    [effective_programming_level |->
         Drift(state.effective_programming_level, result.programming_difficulty),
     effective_maths_level |->
         Drift(state.effective_maths_level, result.maths_difficulty),
     context_turn |-> turn_id]

\* the lengths of the chunks a provider stream yields (never empty)
ChunkLens == {3, 6}

\* ------------------------------------------------------------------ state
VARIABLES
    pc,             \* position of websocket_chat
    token,          \* the token of the connection request
    accepted,       \* websocket.accept() was called
    closeCode,      \* code of the server's websocket.close(), 0 when none
    closedAt,       \* the position at which the handler was left
    clientGone,     \* the client has disconnected
    today,          \* date.today() of the server; also the clock of expires_at
    nframes,        \* frames received so far; the turn id of the current frame
    frame,          \* the frame of the current turn
    events,         \* the events sent to the client in the current turn
    outcome,        \* per frame: how its turn ended, and the day of its commit
    db,             \* the committed database
    tx,             \* the view of the turn's AsyncSession (flushed, uncommitted)
    turn,           \* the locals of the current turn
    student_state   \* the StudentState of the connection

handler_vars == <<pc, token, accepted, closeCode, closedAt, clientGone, today, nframes,
                  frame, events, outcome, db, tx, turn, student_state>>

\* get_llm_provider and one call of generate_stream
VARIABLES
    settings,       \* llm_provider and the three api keys of the Settings
    llm,            \* the provider get_llm_provider returned, "" before the call
    stream_pc,      \* position of generate_stream
    attempt,        \* the loop variable of `for attempt in range(retries)`
    backoff,        \* the seconds of the next sleep
    response,       \* the response being read
    requests,       \* the outcome of every request sent so far
    sleeps,         \* the seconds of every asyncio.sleep so far
    yielded,        \* the chunks yielded so far, each <<request, position>>
    raised          \* the LLMError that left the call

llm_vars == <<settings, llm, stream_pc, attempt, backoff, response, requests, sleeps,
              yielded, raised>>

\* get_daily_usage called by two connections, each in its own AsyncSession
VARIABLES
    daily_token_usage,  \* the committed rows of the table
    conns               \* per connection: its user, its position, the row it
                        \* holds, whether that row is its own uncommitted insert

usage_vars == <<daily_token_usage, conns>>

\* one call of save_uploaded_files
VARIABLES
    files,              \* the batch of the call
    upload_pc,          \* position of save_uploaded_files
    written_paths,      \* the paths the call has written
    saved_files,        \* the UploadedFile objects the call has added to the session
    storage_dir,        \* the files in the storage directory
    uploaded_file_rows, \* the UploadedFile rows flushed to the database
    upload_raised       \* the exception that left the call, "" when none

upload_vars == <<files, upload_pc, written_paths, saved_files, storage_dir,
                 uploaded_file_rows, upload_raised>>

\* two connections of one user and the REST calls on the sessions, over one
\* database
VARIABLES
    clock,          \* the clock of the database server, read by now()
    isolation,      \* the isolation level of the transactions
    store,          \* the committed rows: sessions, messages, usage, user levels
    sockets,        \* per connection: position, transaction, locals, StudentState
    commits,        \* the commits of line 508: their token sums, who was last
    rest            \* the last REST call on a session and its result

chat_vars == <<clock, isolation, store, sockets, commits, rest>>

\* one call of build_context_messages
VARIABLES
    context         \* its arguments, its position and the messages it returns

context_vars == <<context>>

\* the process-global services and the calls of _get_services
VARIABLES
    _embedding_service,   \* the global: None, or the service and its state
    _pedagogy_engine,     \* the global: None, or the llm the engine holds
    callers               \* per call of _get_services: position, what it got

global_vars == <<_embedding_service, _pedagogy_engine, callers>>

\* the decoding of one response body by generate_stream
VARIABLES
    decode          \* the lines of the body, the position, the chunks yielded

decode_vars == <<decode>>

more_vars == <<chat_vars, context_vars, global_vars, decode_vars>>

\* what the two-connection model leaves alone
not_chat_vars ==
    <<handler_vars, llm_vars, usage_vars, upload_vars, context_vars, global_vars, decode_vars>>

\* what the context builder leaves alone
not_context_vars ==
    <<handler_vars, llm_vars, usage_vars, upload_vars, chat_vars, global_vars, decode_vars>>

\* what _get_services leaves alone
not_global_vars ==
    <<handler_vars, llm_vars, usage_vars, upload_vars, chat_vars, context_vars, decode_vars>>

\* what the decoding leaves alone
not_decode_vars ==
    <<handler_vars, llm_vars, usage_vars, upload_vars, chat_vars, context_vars, global_vars>>

service_vars == <<llm_vars, usage_vars, upload_vars, more_vars>>

vars == <<handler_vars, service_vars>>

NoSettings ==
    [llm_provider |-> "", anthropic_api_key |-> "", openai_api_key |-> "",
     google_api_key |-> ""]

NoResponse == [status_code |-> 0, body |-> ""]

NoError == [raised |-> FALSE, detail |-> "", body |-> ""]

\* the services before any call
LLMIdle ==
    /\ settings = NoSettings
    /\ llm = ""
    /\ stream_pc = "idle"
    /\ attempt = 0
    /\ backoff = 0
    /\ response = NoResponse
    /\ requests = <<>>
    /\ sleeps = <<>>
    /\ yielded = <<>>
    /\ raised = NoError

NoTurn ==
    [upload_ids |-> <<>>, uploads |-> <<>>, image_uploads |-> <<>>,
     document_uploads |-> <<>>, enriched_len |-> 0, input_tokens |-> 0,
     session_id |-> None, enable_topic_filters |-> FALSE, result |-> NoDecision,
     chat_history |-> <<>>, full_response |-> <<>>, stream_calls |-> 0,
     usage0 |-> {}, msgs0 |-> <<>>, llm_failed |-> {}]

NoState ==
    [effective_programming_level |-> None, effective_maths_level |-> None,
     context_turn |-> 0]

InitDb ==
    [sessions |-> <<OtherUser>>,
     msgs |-> <<ChatMessage(0, ForeignSession, "user", Text("question", 5),
                            None, None, None, 2, None, <<>>)>>,
     usage |-> {},
     effective_programming_level |-> None,
     effective_maths_level |-> None]

HandlerInit ==
    /\ pc = "connect"
    /\ token \in Tokens
    /\ accepted = FALSE
    /\ closeCode = 0
    /\ closedAt = ""
    /\ clientGone = FALSE
    /\ today = 0
    /\ nframes = 0
    /\ frame = NoFrame
    /\ events = <<>>
    /\ outcome = <<>>
    /\ db = InitDb
    /\ tx = InitDb
    /\ turn = NoTurn
    /\ student_state = NoState

UsageIdle ==
    /\ daily_token_usage = <<>>
    /\ conns = <<>>

UploadIdle ==
    /\ files = <<>>
    /\ upload_pc = "idle"
    /\ written_paths = <<>>
    /\ saved_files = <<>>
    /\ storage_dir = {}
    /\ uploaded_file_rows = {}
    /\ upload_raised = ""

\* no connection of the two-connection model is open
NoRest == [op |-> "", caller |-> "", session_id |-> 0, status |-> 0, returned |-> {},
           calls |-> 0]

ChatIdle ==
    /\ clock = 0
    /\ isolation = ""
    /\ store = <<>>
    /\ sockets = <<>>
    /\ commits = <<>>
    /\ rest = NoRest

ContextIdle == context = <<>>

GlobalsIdle ==
    /\ _embedding_service = <<>>
    /\ _pedagogy_engine = <<>>
    /\ callers = <<>>

DecodeIdle == decode = <<>>

MoreIdle == ChatIdle /\ ContextIdle /\ GlobalsIdle /\ DecodeIdle

Init == HandlerInit /\ LLMIdle /\ UsageIdle /\ UploadIdle /\ MoreIdle

user == _authenticate_ws(token)

SetOutcome(status, day) ==
    [outcome EXCEPT ![nframes] = [@ EXCEPT !.status = status, !.day = day]]

\* a handler that charges the input estimate when it stores the user message
StoreUserTurn_ChargesInput(view, user_id, day, created, m) ==
    [view EXCEPT !.usage = increment_token_usage(@, user_id, day, m.input_tokens, 0),
                 !.sessions = created[1],
                 !.msgs = save_message(@, m)]

\* the writes of the turn's user message, flushed before the commit of line 402:
\* the usage row that check_daily_limit created, the session, the message
StoreUserTurn(view, user_id, day, created, m) ==
    [view EXCEPT !.usage = get_daily_usage(@, user_id, day),
                 !.sessions = created[1],
                 !.msgs = save_message(@, m)]

\* a handler that stores an empty reply
CannedContent_Empty(result) == EmptyText

\* result.canned_response or "", line 426
CannedContent(result) ==
    IF result.canned_response # NoText THEN result.canned_response ELSE EmptyText

\* a handler that stores the partial answer
OnLLMError_StoresPartial(view, user_id, day, t, turn_id) ==
    [view EXCEPT !.msgs = save_message(@,
        ChatMessage(turn_id, t.session_id, "assistant",
                    Text("generated", SumSeq(t.full_response)),
                    None, None, None, None, None, <<>>))]

\* a handler that charges the input estimate of the failed turn
OnLLMError_ChargesInput(view, user_id, day, t, turn_id) ==
    [view EXCEPT !.usage = increment_token_usage(@, user_id, day, t.input_tokens, 0)]

\* what the LLMError handler of lines 464-473 writes before its commit: nothing
OnLLMError(view, user_id, day, t, turn_id) == view

\* websocket_chat, lines 262-267: authenticate, then close 4001 or accept
Authenticate ==
    /\ pc = "connect"
    /\ IF _authenticate_ws(token) = ""
       THEN /\ pc' = "closed"
            /\ closedAt' = "connect"
            /\ closeCode' = 4001
            /\ accepted' = FALSE
       ELSE /\ pc' = "init"
            /\ accepted' = TRUE
            /\ UNCHANGED <<closeCode, closedAt>>
    /\ UNCHANGED <<service_vars, token, clientGone, today, nframes, frame, events, outcome, db, tx,
                   turn, student_state>>

\* websocket_chat, lines 269-290: the AI services and the StudentState
InitServices ==
    /\ pc = "init"
    /\ \E available \in BOOLEAN :
         IF available
         THEN /\ student_state' =
                    [effective_programming_level |->
                         IF db.effective_programming_level # None
                         THEN db.effective_programming_level
                         ELSE programming_level * 100,
                     effective_maths_level |->
                         IF db.effective_maths_level # None
                         THEN db.effective_maths_level
                         ELSE maths_level * 100,
                     context_turn |-> 0]
              /\ pc' = "recv"
              /\ UNCHANGED <<events, closeCode, closedAt>>
         ELSE /\ events' = IF clientGone THEN events
                           ELSE Append(events, ErrorEvent(MsgServiceUnavailable))
              /\ closeCode' = IF clientGone THEN closeCode ELSE 1000
              /\ pc' = "closed"
              /\ closedAt' = "init"
              /\ UNCHANGED student_state
    /\ UNCHANGED <<service_vars, token, accepted, clientGone, today, nframes, frame, outcome, db, tx,
                   turn>>

\* the client goes away; the handler meets it at its next receive or send
Disconnect ==
    /\ pc \notin {"connect", "closed"}
    /\ ~clientGone
    /\ clientGone' = TRUE
    /\ UNCHANGED <<service_vars, pc, token, accepted, closeCode, closedAt, today, nframes, frame,
                   events, outcome, db, tx, turn, student_state>>

\* midnight passes; the handler reads the date in Validate (check_daily_limit,
\* get_user_uploads_by_ids) and in PostStream (increment_token_usage), so a
\* midnight at any other point is the midnight before the next of these
AdvanceDay ==
    /\ pc \in {"validate", "post"}
    /\ today < MaxDay
    /\ today' = today + 1
    /\ UNCHANGED <<service_vars, pc, token, accepted, closeCode, closedAt, clientGone, nframes,
                   frame, events, outcome, db, tx, turn, student_state>>

\* websocket_chat, line 294: receive_text returns a frame or raises
\* WebSocketDisconnect (lines 519-520)
Receive ==
    /\ pc = "recv"
    /\ IF clientGone
       THEN /\ pc' = "closed"
            /\ closedAt' = "recv"
            /\ UNCHANGED <<nframes, frame, events, outcome, turn>>
       ELSE /\ nframes < MaxFrames
            /\ \E f \in Frames : frame' = f
            /\ nframes' = nframes + 1
            /\ events' = <<>>
            /\ outcome' = Append(outcome, [status |-> "open", day |-> None, stream |-> "none"])
            /\ turn' = [NoTurn EXCEPT !.usage0 = db.usage, !.msgs0 = db.msgs]
            /\ pc' = "validate"
            /\ UNCHANGED closedAt
    /\ UNCHANGED <<service_vars, token, accepted, closeCode, clientGone, today, db, tx, student_state>>

\* websocket_chat, lines 295-385: what the handler makes of a frame before
\* it stores anything.  verdict is "ok", "skip" (the silent continue of
\* line 332) or the message of the error event.
ParseFrame(f, rows, user_id, day) ==
    LET raw_upload_ids == f.upload_ids
        user_len == Strip(f.content)
        max_items == upload_max_images_per_message + upload_max_documents_per_message
        upload_ids == _parse_upload_ids(raw_upload_ids)
        session_id == IF f.session_id = NoSessionId THEN None
                      ELSE IF f.session_id = BadSessionId THEN None
                      ELSE f.session_id
        uploads == get_user_uploads_by_ids(user_id, upload_ids, day)
        split == _split_uploads(uploads)
        enriched_len == _build_enriched_message(user_len, split[2])
        input_tokens == count_tokens(enriched_len) + Len(split[1]) * ImageTokenCost
        verdict ==
            IF ~f.json_ok THEN MsgInvalidFormat
            ELSE IF raw_upload_ids.is_list /\ Len(raw_upload_ids.ids) > max_items
                 THEN MsgTooManyFiles
            ELSE IF raw_upload_ids.is_list /\ Len(upload_ids) # Len(raw_upload_ids.ids)
                 THEN MsgInvalidReference
            ELSE IF user_len = 0 /\ upload_ids = <<>> THEN "skip"
            ELSE IF ~check_daily_limit(rows, user_id, day) THEN MsgDailyLimit
            ELSE IF Len(uploads) # Len(upload_ids) THEN MsgInaccessible
            ELSE IF _validate_upload_mix(split[1], split[2]) THEN MsgTooManyFiles
            ELSE IF input_tokens > llm_max_user_input_tokens THEN MsgFilesTooLarge
            ELSE "ok"
    IN  [verdict |-> verdict, user_len |-> user_len, upload_ids |-> upload_ids,
         session_id |-> session_id, uploads |-> uploads, image_uploads |-> split[1],
         document_uploads |-> split[2], enriched_len |-> enriched_len,
         input_tokens |-> input_tokens]

\* a call that always enables the topic filters
EnableTopicFilters_Always(uploads) == TRUE

\* enable_topic_filters = not bool(uploads), line 414
EnableTopicFilters(uploads) == uploads = <<>>

\* a loop that also drops the frame of a user over the daily limit silently
ContinuesSilently_AlsoOverLimit(verdict) == verdict \in {"skip", MsgDailyLimit}

\* lines 331-332: the frame with no text and no upload ids is dropped, no event
ContinuesSilently(verdict) == verdict = "skip"

\* websocket_chat, lines 295-406: parse and check the frame, store the user
\* message, commit, send the session event.  The date and the time are read
\* at the quota check and at the upload lookup (today); the commit of line
\* 402 happens at today'.
\* what a rejected turn has flushed: nothing when it is rejected before line
\* 334, the usage row of the day (get_daily_usage, add and flush) after it
FlushedByCheck(f, t, view, user_id, day) ==
    LET max_items == upload_max_images_per_message + upload_max_documents_per_message
        before_session ==
            \/ t.verdict \in {MsgInvalidFormat, MsgInvalidReference}
            \/ f.upload_ids.is_list /\ Len(f.upload_ids.ids) > max_items
    IN  IF before_session THEN view
        ELSE [view EXCEPT !.usage = get_daily_usage(@, user_id, day)]

\* a session that commits what it flushed when the turn leaves it
LeaveSession_Commits(committed, flushed) == flushed

\* line 334: `continue` leaves the `async with` block without a commit, and
\* the session rolls back what it flushed
LeaveSession(committed, flushed) == committed

ValidateTurn ==
    /\ pc = "validate"
    /\ LET t == ParseFrame(frame, tx.usage, user, today)
       IN  IF ContinuesSilently(t.verdict)
           THEN /\ pc' = "recv"
                /\ outcome' = SetOutcome("skipped", None)
                /\ tx' = db
                /\ UNCHANGED <<events, db, turn, closedAt>>
           ELSE IF t.verdict # "ok"
           THEN /\ db' = LeaveSession(db, FlushedByCheck(frame, t, tx, user, today))
                /\ tx' = db'
                /\ UNCHANGED turn
                /\ IF clientGone
                   THEN /\ pc' = "closed"
                        /\ closedAt' = "validate"
                        /\ outcome' = SetOutcome("disconnected", None)
                        /\ UNCHANGED events
                   ELSE /\ pc' = "recv"
                        /\ events' = Append(events, ErrorEvent(t.verdict))
                        /\ outcome' = SetOutcome("rejected", None)
                        /\ UNCHANGED closedAt
           ELSE LET created == get_or_create_session(tx.sessions, user, t.session_id)
                    stored_user_content ==
                        IF t.user_len > 0 THEN frame.content ELSE SentAttachmentsText
                    m == ChatMessage(nframes, created[2], "user", stored_user_content,
                                     None, None, None, t.input_tokens, None, t.uploads)
                    flushed == StoreUserTurn(tx, user, today, created, m)
                IN  /\ db' = flushed
                    /\ tx' = flushed
                    /\ turn' = [turn EXCEPT
                                  !.upload_ids = t.upload_ids,
                                  !.uploads = t.uploads,
                                  !.image_uploads = t.image_uploads,
                                  !.document_uploads = t.document_uploads,
                                  !.enriched_len = t.enriched_len,
                                  !.input_tokens = t.input_tokens,
                                  !.session_id = created[2],
                                  !.enable_topic_filters = EnableTopicFilters(t.uploads)]
                    /\ IF clientGone
                       THEN /\ pc' = "closed"
                            /\ closedAt' = "session"
                            /\ outcome' = SetOutcome("disconnected", None)
                            /\ UNCHANGED events
                       ELSE /\ pc' = "pedagogy"
                            /\ events' = Append(events, SessionEvent(created[2]))
                            /\ UNCHANGED <<outcome, closedAt>>
    /\ UNCHANGED <<service_vars, token, accepted, closeCode, clientGone, nframes, frame,
                   student_state>>

\* the turn is validated and stored within one tick of the clock
Validate ==
    /\ today' = today
    /\ ValidateTurn

\* the clock passes an expiry time between the upload lookup of line 353 and
\* the commit of line 402 (the embedding call and three database calls lie
\* between them)
ValidateWhileClockMoves ==
    /\ today < MaxDay
    /\ today' = today + 1
    /\ ValidateTurn

\* websocket_chat, lines 408-429: the pedagogy decision; a canned reply is
\* sent, stored and committed, and the loop continues
\* a canned message that counts its text as output
CannedMessage_Counted(turn_id, session_id, result) ==
    ChatMessage(turn_id, session_id, "assistant", CannedContent(result), None, None, None,
                None, count_tokens(CannedContent(result).len), <<>>)

\* lines 425-427: the canned reply is saved with the defaults of save_message
CannedMessage(turn_id, session_id, result) ==
    ChatMessage(turn_id, session_id, "assistant", CannedContent(result),
                None, None, None, None, None, <<>>)

Pedagogy ==
    /\ pc = "pedagogy"
    /\ \E result \in process_message(turn.enable_topic_filters) :
         IF result.filter_result # ""
         THEN IF clientGone
              THEN /\ pc' = "closed"
                   /\ closedAt' = "canned"
                   /\ outcome' = SetOutcome("disconnected", None)
                   /\ turn' = [turn EXCEPT !.result = result]
                   /\ tx' = db
                   /\ UNCHANGED <<events, db>>
              ELSE LET m == CannedMessage(nframes, turn.session_id, result)
                       flushed == [tx EXCEPT !.msgs = save_message(@, m)]
                   IN  /\ events' = Append(events,
                                           CannedEvent(result.canned_response,
                                                       result.filter_result))
                       /\ db' = flushed
                       /\ tx' = flushed
                       /\ turn' = [turn EXCEPT !.result = result]
                       /\ outcome' = SetOutcome("canned", None)
                       /\ pc' = "recv"
                       /\ UNCHANGED closedAt
         ELSE /\ turn' = [turn EXCEPT !.result = result]
              /\ pc' = "context"
              /\ UNCHANGED <<events, db, tx, outcome, closedAt>>
    /\ UNCHANGED <<service_vars, token, accepted, closeCode, clientGone, today, nframes, frame,
                   student_state>>

\* websocket_chat, lines 521-527: an exception of the engine leaves the loop;
\* the handler sends "Internal error" and closes
PedagogyRaises ==
    /\ pc = "pedagogy"
    /\ pc' = "closed"
    /\ closedAt' = "pedagogy"
    /\ outcome' = SetOutcome("internal_error", None)
    /\ tx' = db
    /\ events' = IF clientGone THEN events ELSE Append(events, ErrorEvent(MsgInternal))
    /\ closeCode' = IF clientGone THEN closeCode ELSE 1000
    /\ UNCHANGED <<service_vars, token, accepted, clientGone, today, nframes, frame, db, turn,
                   student_state>>

\* websocket_chat, lines 431-454: the history without the just-saved message
BuildContext ==
    /\ pc = "context"
    /\ LET chat_history == get_chat_history(tx.msgs, turn.session_id)
       IN  turn' = [turn EXCEPT !.chat_history =
                       IF chat_history # <<>>
                       THEN SubSeq(chat_history, 1, Len(chat_history) - 1)
                       ELSE chat_history]
    /\ pc' = "stream"
    /\ UNCHANGED <<service_vars, token, accepted, closeCode, closedAt, clientGone, today, nframes,
                   frame, events, outcome, db, tx, student_state>>

\* websocket_chat, lines 458-463: generate_stream yields a chunk, which is
\* kept and sent as a token event
StreamChunk ==
    /\ pc = "stream"
    /\ Len(turn.full_response) < MaxChunks
    /\ \E chunk \in ChunkLens :
         turn' = [turn EXCEPT !.full_response = Append(@, chunk), !.stream_calls = 1]
    /\ IF clientGone
       THEN /\ pc' = "closed"
            /\ closedAt' = "token"
            /\ outcome' = SetOutcome("disconnected", None)
            /\ tx' = db
            /\ UNCHANGED events
       ELSE /\ events' = Append(events, TokenEvent(turn'.full_response[Len(turn'.full_response)]))
            /\ UNCHANGED <<pc, closedAt, outcome, tx>>
    /\ UNCHANGED <<service_vars, token, accepted, closeCode, clientGone, today, nframes, frame, db,
                   student_state>>

\* websocket_chat, line 458: generate_stream is exhausted
StreamEnd ==
    /\ pc = "stream"
    /\ turn' = [turn EXCEPT !.stream_calls = 1]
    /\ outcome' = [outcome EXCEPT ![nframes].stream = "ok"]
    /\ pc' = "post"
    /\ UNCHANGED <<service_vars, token, accepted, closeCode, closedAt, clientGone, today, nframes,
                   frame, events, db, tx, student_state>>

\* a handler that leaves the loop after an LLMError
AfterLLMError_Closes == "closed"

\* line 473: `continue`, the handler goes back to receive_text
AfterLLMError == "recv"

\* websocket_chat, lines 464-473: generate_stream raises LLMError; an error
\* event is sent, the session is committed and the loop continues
StreamError ==
    /\ pc = "stream"
    /\ turn' = [turn EXCEPT !.stream_calls = 1]
    /\ IF clientGone
       THEN /\ pc' = "closed"
            /\ closedAt' = "error"
            /\ outcome' = [outcome EXCEPT ![nframes] =
                               [status |-> "disconnected", day |-> None, stream |-> "error"]]
            /\ tx' = db
            /\ UNCHANGED <<events, db>>
       ELSE /\ events' = Append(events, ErrorEvent(MsgUnavailable))
            /\ tx' = OnLLMError(tx, user, today, turn, nframes)
            /\ db' = tx'
            /\ pc' = AfterLLMError
            /\ outcome' = [outcome EXCEPT ![nframes] =
                               [status |-> "llm_error", day |-> None, stream |-> "error"]]
            /\ UNCHANGED closedAt
    /\ UNCHANGED <<service_vars, token, accepted, closeCode, clientGone, today, nframes, frame,
                   student_state>>

\* websocket_chat, lines 475-508: count the output, update the student
\* state, store the assistant message, add the usage, write the levels, commit
PostStream ==
    /\ pc = "post"
    /\ LET assistant_len == SumSeq(turn.full_response)
           output_tokens == count_tokens(assistant_len)
           state == update_context_embedding(student_state, turn.result, nframes)
           m == ChatMessage(nframes, turn.session_id, "assistant",
                            Text("generated", assistant_len),
                            turn.result.hint_level, turn.result.programming_difficulty,
                            turn.result.maths_difficulty, None, output_tokens, <<>>)
           flushed == [tx EXCEPT
                         !.msgs = save_message(@, m),
                         !.usage = increment_token_usage(@, user, today,
                                                         turn.input_tokens, output_tokens),
                         !.effective_programming_level = state.effective_programming_level,
                         !.effective_maths_level = state.effective_maths_level]
       IN  /\ student_state' = state
           /\ db' = flushed
           /\ tx' = flushed
    /\ outcome' = SetOutcome("committed", today)
    /\ pc' = "done"
    /\ UNCHANGED <<service_vars, token, accepted, closeCode, closedAt, clientGone, today, nframes,
                   frame, events, turn>>

\* websocket_chat, lines 510-517: the done event
SendDone ==
    /\ pc = "done"
    /\ IF clientGone
       THEN /\ pc' = "closed"
            /\ closedAt' = "done"
            /\ outcome' = SetOutcome("disconnected", outcome[nframes].day)
            /\ UNCHANGED events
       ELSE /\ events' = Append(events, DoneEvent(turn.result))
            /\ outcome' = SetOutcome("done", outcome[nframes].day)
            /\ pc' = "recv"
            /\ UNCHANGED closedAt
    /\ UNCHANGED <<service_vars, token, accepted, closeCode, clientGone, today, nframes, frame, db,
                   tx, turn, student_state>>

Next ==
    \/ Authenticate
    \/ InitServices
    \/ Disconnect
    \/ AdvanceDay
    \/ Receive
    \/ Validate
    \/ Pedagogy
    \/ PedagogyRaises
    \/ BuildContext
    \/ StreamChunk
    \/ StreamEnd
    \/ StreamError
    \/ PostStream
    \/ SendDone

Spec == Init /\ [][Next]_vars

\* ------------------------------------------------------- failures in a turn
\* round() of an effective level kept in hundredths (Python rounds half to even)
RoundLevel(level) ==
    LET q == level \div 100
        r == level % 100
    IN  IF r < 50 THEN q
        ELSE IF r > 50 THEN q + 1
        ELSE IF q % 2 = 0 THEN q ELSE q + 1

\* the decision the engine falls back to when a classifier call fails or its
\* output is malformed: hint level 2, the rounded effective levels
DefaultDecision(state) ==
    [NoDecision EXCEPT !.hint_level = 2,
                       !.programming_difficulty = RoundLevel(state.effective_programming_level),
                       !.maths_difficulty = RoundLevel(state.effective_maths_level)]

\* PedagogyEngine.process_message when a classifier call raises LLMError:
\* the engine recovers with its defaults and returns an on-topic decision
PedagogyFallback ==
    /\ pc = "pedagogy"
    /\ turn' = [turn EXCEPT !.result = DefaultDecision(student_state),
                            !.llm_failed = @ \cup {"classify"}]
    /\ pc' = "context"
    /\ UNCHANGED <<service_vars, token, accepted, closeCode, closedAt, clientGone, today, nframes,
                   frame, events, outcome, db, tx, student_state>>

\* build_context_messages when the summarisation call raises LLMError: the
\* dropped prefix of the history is left out and the context is still built
BuildContextSummaryFails ==
    /\ pc = "context"
    /\ LET chat_history == get_chat_history(tx.msgs, turn.session_id)
       IN  /\ Len(chat_history) > 1
           /\ turn' = [turn EXCEPT
                         !.chat_history = SubSeq(chat_history, 1, Len(chat_history) - 1),
                         !.llm_failed = @ \cup {"summarise"}]
    /\ pc' = "stream"
    /\ UNCHANGED <<service_vars, token, accepted, closeCode, closedAt, clientGone, today, nframes,
                   frame, events, outcome, db, tx, student_state>>

\* the frames of the turns in which a call fails
FaultFrames ==
    { Frame(TRUE, Question, NoSessionId, TRUE, <<>>),
      Frame(TRUE, Question, 2, TRUE, <<"doc1">>),
      Frame(TRUE, Blank, NoSessionId, TRUE, <<>>),
      Frame(TRUE, Question, NoSessionId, TRUE, <<"old1">>) }

ReceiveFaultFrame ==
    /\ Receive
    /\ pc' = "validate" => frame' \in FaultFrames

\* lines 295-334: the frame passes the parsing and opens an AsyncSession
OpensSession(f) ==
    LET max_items == upload_max_images_per_message + upload_max_documents_per_message
        upload_ids == _parse_upload_ids(f.upload_ids)
    IN  /\ f.json_ok
        /\ f.upload_ids.is_list =>
              /\ Len(f.upload_ids.ids) <= max_items
              /\ Len(upload_ids) = Len(f.upload_ids.ids)
        /\ ~(Strip(f.content) = 0 /\ upload_ids = <<>>)

\* a failed commit that leaves the flushed messages in the database
CommitFails_KeepsMessages(committed, flushed) == [committed EXCEPT !.msgs = flushed.msgs]

\* a failed commit that leaves the flushed rows in the database
CommitFails_KeepsFlushed(committed, flushed) == flushed

\* line 334: a database call or the commit raises, the exception leaves the
\* `async with` block and the session rolls back what it had flushed
CommitFails(committed, flushed) == committed

\* what the turn has flushed when its next commit is due
Flushed ==
    IF pc = "validate"
    THEN LET t == ParseFrame(frame, tx.usage, user, today)
             created == get_or_create_session(tx.sessions, user, t.session_id)
             m == ChatMessage(nframes, created[2], "user",
                              IF t.user_len > 0 THEN frame.content ELSE SentAttachmentsText,
                              None, None, None, t.input_tokens, None, t.uploads)
         IN  StoreUserTurn(tx, user, today, created, m)
    ELSE IF pc = "pedagogy"
    THEN [tx EXCEPT !.msgs = save_message(@,
             ChatMessage(nframes, turn.session_id, "assistant", Text("canned greeting", 30),
                         None, None, None, None, None, <<>>))]
    ELSE IF pc = "post"
    THEN LET output_tokens == count_tokens(SumSeq(turn.full_response))
             state == update_context_embedding(student_state, turn.result, nframes)
         IN  [tx EXCEPT
                !.msgs = save_message(@,
                    ChatMessage(nframes, turn.session_id, "assistant",
                                Text("generated", SumSeq(turn.full_response)),
                                turn.result.hint_level, turn.result.programming_difficulty,
                                turn.result.maths_difficulty, None, output_tokens, <<>>)),
                !.usage = increment_token_usage(@, user, today, turn.input_tokens,
                                                output_tokens),
                !.effective_programming_level = state.effective_programming_level,
                !.effective_maths_level = state.effective_maths_level]
    ELSE tx

\* the events the turn sends at this position before its database call
SentBeforeStore ==
    IF pc = "pedagogy"
    THEN <<CannedEvent(Text("canned greeting", 30), "greeting")>>
    ELSE IF pc = "stream" THEN <<ErrorEvent(MsgUnavailable)>>
    ELSE <<>>

\* websocket_chat, lines 334 and 521-527: a database call of the turn raises
\* (the quota check, the upload lookup, a save, a commit); the session rolls
\* back, the handler sends "Internal error" and closes the connection
StoreFails ==
    /\ pc \in {"validate", "pedagogy", "context", "stream", "post"}
    /\ pc = "validate" => OpensSession(frame)
    /\ pc = "pedagogy" => turn.enable_topic_filters
    /\ SentBeforeStore # <<>> => ~clientGone
    /\ db' = CommitFails(db, Flushed)
    /\ tx' = db'
    /\ pc' = "closed"
    /\ closedAt' = "store"
    /\ outcome' = [outcome EXCEPT ![nframes] =
                      [@ EXCEPT !.status = "store_error",
                                !.stream = IF pc = "stream" THEN "error"
                                           ELSE IF pc = "post" THEN "ok" ELSE @]]
    /\ events' = IF clientGone THEN events
                 ELSE events \o SentBeforeStore \o <<ErrorEvent(MsgInternal)>>
    /\ closeCode' = IF clientGone THEN closeCode ELSE 1000
    /\ turn' = IF pc = "stream" THEN [turn EXCEPT !.stream_calls = 1] ELSE turn
    /\ student_state' = IF pc = "post"
                        THEN update_context_embedding(student_state, turn.result, nframes)
                        ELSE student_state
    /\ UNCHANGED <<service_vars, token, accepted, clientGone, today, nframes, frame>>

NextFaults ==
    \/ Authenticate
    \/ InitServices
    \/ Disconnect
    \/ ReceiveFaultFrame
    \/ Validate
    \/ ValidateWhileClockMoves
    \/ Pedagogy
    \/ PedagogyFallback
    \/ BuildContext
    \/ BuildContextSummaryFails
    \/ StreamChunk
    \/ StreamEnd
    \/ StreamError
    \/ PostStream
    \/ SendDone
    \/ StoreFails

SpecFaults == Init /\ [][NextFaults]_vars

\* ------------------------------------------- provider factory and streaming
\* a loop with one attempt more
retries_Four == 3 + 1

retries == 3
InitialBackoff == 1

\* the status codes a provider answers with
StatusCodes == {200, 301, 400, 429, 503}

\* the llm_provider tags of a configuration and the values of an api key
ProviderTags == {"anthropic", "OpenAI", "google", "mistral"}
ApiKeys == {"", "sk-1"}

SettingsSet ==
    [llm_provider : ProviderTags, anthropic_api_key : ApiKeys,
     openai_api_key : ApiKeys, google_api_key : ApiKeys]

\* str.lower() on the tags
Lower(tag) == IF tag = "OpenAI" THEN "openai" ELSE tag

\* a factory that returns the preferred provider without looking at its key
get_llm_provider_IgnoresKey(st) ==
    LET provider == Lower(st.llm_provider)
    IN  IF provider = "anthropic" THEN "AnthropicProvider"
        ELSE IF provider = "openai" THEN "OpenAIProvider"
        ELSE IF provider = "google" THEN "GoogleGeminiProvider"
        ELSE IF st.anthropic_api_key # "" THEN "AnthropicProvider"
        ELSE IF st.openai_api_key # "" THEN "OpenAIProvider"
        ELSE IF st.google_api_key # "" THEN "GoogleGeminiProvider"
        ELSE "LLMError"

\* get_llm_provider: the class of the provider returned, "LLMError" when raised
get_llm_provider(st) ==
    LET provider == Lower(st.llm_provider)
    IN  IF provider = "anthropic" /\ st.anthropic_api_key # "" THEN "AnthropicProvider"
        ELSE IF provider = "openai" /\ st.openai_api_key # "" THEN "OpenAIProvider"
        ELSE IF provider = "google" /\ st.google_api_key # "" THEN "GoogleGeminiProvider"
        ELSE IF st.anthropic_api_key # "" THEN "AnthropicProvider"
        ELSE IF st.openai_api_key # "" THEN "OpenAIProvider"
        ELSE IF st.google_api_key # "" THEN "GoogleGeminiProvider"
        ELSE "LLMError"

\* a test that also retries every client error
Retryable_EveryError(status_code) == status_code >= 400

\* line 74 (openai), line 49 (anthropic): the statuses that are retried
Retryable(status_code) == status_code = 429 \/ status_code >= 500

Request(kind, status_code) ==
    [kind |-> kind, status_code |-> status_code, ending |-> ""]

LLMError(detail, body) == [raised |-> TRUE, detail |-> detail, body |-> body]

\* the body a provider sends with a status
BodyOf(status_code) == IF status_code = 200 THEN "event stream" ELSE "provider message"

\* the chunks yielded from the response being read
Position == Len(SelectSeq(yielded, LAMBDA y : y[1] = Len(requests)))

\* the call of get_llm_provider
GetProvider ==
    /\ stream_pc = "idle"
    /\ settings # NoSettings
    /\ llm' = get_llm_provider(settings)
    /\ stream_pc' = IF llm' = "LLMError" THEN "unconfigured" ELSE "configured"
    /\ UNCHANGED <<handler_vars, more_vars, usage_vars, upload_vars, settings, attempt, backoff, response, requests, sleeps,
                   yielded, raised>>

\* generate_stream is called: retries = 3, backoff = 1, the first iteration
StartStream ==
    /\ stream_pc = "configured"
    /\ llm \in {"AnthropicProvider", "OpenAIProvider"}
    /\ attempt' = 0
    /\ backoff' = InitialBackoff
    /\ stream_pc' = "request"
    /\ UNCHANGED <<handler_vars, more_vars, usage_vars, upload_vars, settings, llm, response, requests, sleeps, yielded, raised>>

\* client.stream("POST", ...): a status arrives, or the transport times out,
\* or it fails otherwise
SendRequest ==
    /\ stream_pc = "request"
    /\ \/ \E status_code \in StatusCodes :
            /\ response' = [status_code |-> status_code, body |-> BodyOf(status_code)]
            /\ requests' = Append(requests, Request("status", status_code))
            /\ stream_pc' = "status"
       \/ /\ requests' = Append(requests, Request("timeout", 0))
          /\ stream_pc' = "timeout"
          /\ UNCHANGED response
       \/ /\ requests' = Append(requests, Request("error", 0))
          /\ stream_pc' = "exception"
          /\ UNCHANGED response
    /\ UNCHANGED <<handler_vars, more_vars, usage_vars, upload_vars, settings, llm, attempt, backoff, sleeps, yielded, raised>>

\* the retry of both branches: sleep(backoff), backoff *= 2, continue
SleepAndContinue ==
    /\ sleeps' = Append(sleeps, backoff)
    /\ backoff' = backoff * 2
    /\ attempt' = attempt + 1
    /\ stream_pc' = "request"
    /\ UNCHANGED raised

Raise(detail, body) ==
    /\ raised' = LLMError(detail, body)
    /\ stream_pc' = "raised"
    /\ UNCHANGED <<attempt, backoff, sleeps>>

\* the status checks before the body is read
CheckStatus ==
    /\ stream_pc = "status"
    /\ IF Retryable(response.status_code)
       THEN IF attempt < retries - 1
            THEN SleepAndContinue
            ELSE Raise("error after retries", "")
       ELSE IF response.status_code # 200
            THEN Raise("error status", response.body)
            ELSE /\ stream_pc' = "body"
                 /\ UNCHANGED <<attempt, backoff, sleeps, raised>>
    /\ UNCHANGED <<handler_vars, more_vars, usage_vars, upload_vars, settings, llm, response, requests, yielded>>

\* async for line in response.aiter_lines(): a line with text is yielded, the
\* stream ends ([DONE] or end of body), or the read fails
ReadLine ==
    /\ stream_pc = "body"
    /\ \/ /\ Position < MaxChunks
          /\ yielded' = Append(yielded, <<Len(requests), Position + 1>>)
          /\ UNCHANGED <<stream_pc, requests>>
       \/ /\ requests' = [requests EXCEPT ![Len(requests)].ending = "done"]
          /\ stream_pc' = "returned"
          /\ UNCHANGED yielded
       \/ /\ requests' = [requests EXCEPT ![Len(requests)].ending = "timeout"]
          /\ stream_pc' = "timeout"
          /\ UNCHANGED yielded
       \/ /\ requests' = [requests EXCEPT ![Len(requests)].ending = "error"]
          /\ stream_pc' = "exception"
          /\ UNCHANGED yielded
    /\ UNCHANGED <<handler_vars, more_vars, usage_vars, upload_vars, settings, llm, attempt, backoff, response, sleeps, raised>>

\* except httpx.TimeoutException, around the request and the reading alike
OnTimeout ==
    /\ stream_pc = "timeout"
    /\ IF attempt < retries - 1
       THEN SleepAndContinue
       ELSE Raise("timeout after retries", "")
    /\ UNCHANGED <<handler_vars, more_vars, usage_vars, upload_vars, settings, llm, response, requests, yielded>>

\* except Exception
OnException ==
    /\ stream_pc = "exception"
    /\ Raise("unexpected error", "")
    /\ UNCHANGED <<handler_vars, more_vars, usage_vars, upload_vars, settings, llm, response, requests, yielded>>

NextLLM ==
    \/ GetProvider
    \/ StartStream
    \/ SendRequest
    \/ CheckStatus
    \/ ReadLine
    \/ OnTimeout
    \/ OnException

AccessToken == [decodes |-> TRUE, token_type |-> "access", sub |-> TheUser]

InitLLM ==
    /\ HandlerInit
    /\ token = AccessToken
    /\ settings \in SettingsSet
    /\ llm = ""
    /\ stream_pc = "idle"
    /\ attempt = 0
    /\ backoff = 0
    /\ response = NoResponse
    /\ requests = <<>>
    /\ sleeps = <<>>
    /\ yielded = <<>>
    /\ raised = NoError
    /\ UsageIdle
    /\ UploadIdle
    /\ MoreIdle

\* the event loop resumes the coroutine and every request ends (timeout=60.0)
SpecLLM == InitLLM /\ [][NextLLM]_vars /\ WF_vars(NextLLM)

\* ------------------------------------------- the daily usage row, two sessions
UsageRow(user_id, date, input_tokens_used, output_tokens_used) ==
    [user_id |-> user_id, date |-> date, input_tokens_used |-> input_tokens_used,
     output_tokens_used |-> output_tokens_used]

NoRow == UsageRow("", None, 0, 0)

Conn(user_id) ==
    [user_id |-> user_id, pc |-> "idle", usage |-> NoRow, added |-> FALSE, calls |-> 0]

\* the unique index ix_daily_token_usage_user_date
UniqueIndex == TRUE

SameKey(r, user_id, date) == r.user_id = user_id /\ r.date = date

\* select(DailyTokenUsage).where(user_id, date): the committed rows of the key
SelectUsageRows(user_id, date) ==
    SelectSeq(daily_token_usage, LAMBDA r : SameKey(r, user_id, date))

\* get_daily_usage, lines 216-222: today's date and the select
SelectUsage(c) ==
    /\ conns[c].pc = "idle"
    /\ conns[c].calls < MaxFrames
    /\ LET found == SelectUsageRows(conns[c].user_id, today)
       IN  IF found # <<>>
           THEN conns' = [conns EXCEPT ![c].pc = "returned", ![c].usage = found[1]]
           ELSE conns' = [conns EXCEPT ![c].pc = "adding"]
    /\ UNCHANGED <<handler_vars, more_vars, llm_vars, upload_vars, daily_token_usage>>

\* get_daily_usage, lines 223-228: db.add and db.flush.  Under the unique
\* index the INSERT waits for a session that holds an uncommitted row of the
\* same key, and fails with IntegrityError when such a row is committed.
FlushUsage(c) ==
    /\ conns[c].pc = "adding"
    /\ UniqueIndex =>
          \A d \in DOMAIN conns :
              d # c => ~(conns[d].added /\ SameKey(conns[d].usage, conns[c].user_id, today))
    /\ IF UniqueIndex /\ SelectUsageRows(conns[c].user_id, today) # <<>>
       THEN conns' = [conns EXCEPT ![c].pc = "raised"]
       ELSE conns' = [conns EXCEPT ![c].pc = "returned",
                                   ![c].usage = UsageRow(conns[c].user_id, today, 0, 0),
                                   ![c].added = TRUE]
    /\ UNCHANGED <<handler_vars, more_vars, llm_vars, upload_vars, daily_token_usage>>

\* db.commit() of the turn that called get_daily_usage
CommitUsage(c) ==
    /\ conns[c].pc = "returned"
    /\ daily_token_usage' = IF conns[c].added
                            THEN Append(daily_token_usage, conns[c].usage)
                            ELSE daily_token_usage
    /\ conns' = [conns EXCEPT ![c].pc = "idle", ![c].usage = NoRow, ![c].added = FALSE,
                              ![c].calls = @ + 1]
    /\ UNCHANGED <<handler_vars, more_vars, llm_vars, upload_vars>>

\* the session is left without a commit (a rejected turn): rollback
RollbackUsage(c) ==
    /\ conns[c].pc = "returned"
    /\ conns' = [conns EXCEPT ![c].pc = "idle", ![c].usage = NoRow, ![c].added = FALSE,
                              ![c].calls = @ + 1]
    /\ UNCHANGED <<handler_vars, more_vars, llm_vars, upload_vars, daily_token_usage>>

NextUsage ==
    \/ \E c \in DOMAIN conns : SelectUsage(c)
    \/ \E c \in DOMAIN conns : FlushUsage(c)
    \/ \E c \in DOMAIN conns : CommitUsage(c)
    \/ \E c \in DOMAIN conns : RollbackUsage(c)

InitUsage ==
    /\ HandlerInit
    /\ token = AccessToken
    /\ LLMIdle
    /\ UploadIdle
    /\ MoreIdle
    /\ daily_token_usage = <<UsageRow(OtherUser, 0, 7, 1)>>
    /\ conns \in {<<Conn(u1), Conn(u2)>> : u1 \in Users, u2 \in Users}

SpecUsage == InitUsage /\ [][NextUsage]_vars

\* ------------------------------------------------------ save_uploaded_files
IMAGE_EXTENSIONS == {".png", ".jpg", ".jpeg", ".gif", ".webp"}
DOCUMENT_EXTENSIONS == {".pdf", ".txt", ".py", ".js", ".ts", ".csv", ".ipynb"}

\* the limits of get_upload_limits, sizes in bytes
max_image_bytes == 4
max_document_bytes == 20
max_document_tokens == 3
\* settings.upload_expiry_hours, in ticks of the clock
upload_expiry_hours == 1

\* os.path.splitext(filename)[1].lower()
_normalise_extension(ext) ==
    IF ext = ".PNG" THEN ".png" ELSE IF ext = ".Txt" THEN ".txt" ELSE ext

_estimate_tokens(text_len) == Max(1, text_len \div 4)

\* an upload: its extension, the length of its content, the length of the
\* text extracted from it, whether json.loads accepts it
Upload(ext, size, text_len, json_ok) ==
    [ext |-> ext, size |-> size, text_len |-> text_len, json_ok |-> json_ok]

Uploads ==
    { Upload(".PNG", 3, 0, FALSE),
      Upload(".png", 5, 0, FALSE),
      Upload(".jpg", 0, 0, FALSE),
      Upload(".Txt", 8, 8, FALSE),
      Upload(".txt", 16, 16, FALSE),
      Upload(".pdf", 21, 4, FALSE),
      Upload(".ipynb", 6, 4, TRUE),
      Upload(".ipynb", 6, 0, FALSE),
      Upload(".exe", 3, 0, FALSE) }

Batches == UNION {[1..n -> Uploads] : n \in 0..MaxFiles}

\* a count check that looks at the images only
validate_upload_count_ImagesOnly(batch) ==
    \/ Len(batch) = 0
    \/ Len(SelectSeq(batch, LAMBDA f : _normalise_extension(f.ext) \in IMAGE_EXTENSIONS))
           > upload_max_images_per_message

\* validate_upload_count: TRUE when it raises
validate_upload_count(batch) ==
    LET image_count ==
            Len(SelectSeq(batch, LAMBDA f : _normalise_extension(f.ext) \in IMAGE_EXTENSIONS))
        document_count ==
            Len(SelectSeq(batch, LAMBDA f : _normalise_extension(f.ext) \in DOCUMENT_EXTENSIONS))
    IN  \/ Len(batch) = 0
        \/ image_count > upload_max_images_per_message
        \/ document_count > upload_max_documents_per_message

\* classify_upload: <<file_type, max_bytes>>, <<"", 0>> when it raises
classify_upload(ext) ==
    IF _normalise_extension(ext) \in IMAGE_EXTENSIONS THEN <<"image", max_image_bytes>>
    ELSE IF _normalise_extension(ext) \in DOCUMENT_EXTENSIONS
         THEN <<"document", max_document_bytes>>
    ELSE <<"", 0>>

\* the rows and the files before the call: an upload in use, an expired one
StoredRow(path, expires_at) == [storage_path |-> path, expires_at |-> expires_at]
KeptRow == StoredRow(<<"stored", 1>>, 9)
StaleRow == StoredRow(<<"stored", 2>>, -5)
\* a row that expires at the very time of the sweep
DueRow == StoredRow(<<"stored", 3>>, 0)
\* an expired row whose file is no longer on disk
GoneRow == StoredRow(<<"stored", 4>>, -1)
InitRows == {KeptRow, StaleRow, DueRow, GoneRow}

\* a sweep that also takes the rows expiring at the time of the sweep
cleanup_expired_uploads_AtOrBefore(rows, disk, now) ==
    LET expired == {r \in rows : r.expires_at <= now}
    IN  <<rows \ expired, disk \ {r.storage_path : r \in expired}>>

\* cleanup_expired_uploads: <<rows, files>> after the sweep at time now;
\* _delete_file_safely unlinks a file that exists and passes over one that
\* does not
cleanup_expired_uploads(rows, disk, now) ==
    LET expired == {r \in rows : r.expires_at < now}
    IN  <<rows \ expired, disk \ {r.storage_path : r \in expired}>>

\* a cleanup that misses the file written last
DeleteWritten_AllButLast(disk, paths) ==
    disk \ {paths[i] : i \in 1..(Len(paths) - 1)}

\* lines 227-230: _delete_file_safely on every written path
DeleteWritten(disk, paths) == disk \ {paths[i] : i \in 1..Len(paths)}

\* lines 178-180: the count check and the sweep of expired uploads
StartSave ==
    /\ upload_pc = "start"
    /\ IF validate_upload_count(files)
       THEN /\ upload_raised' = "count"
            /\ upload_pc' = "raised"
            /\ UNCHANGED <<storage_dir, uploaded_file_rows>>
       ELSE LET swept == cleanup_expired_uploads(uploaded_file_rows, storage_dir, today)
            IN  /\ uploaded_file_rows' = swept[1]
                /\ storage_dir' = swept[2]
                /\ upload_pc' = "loop"
                /\ UNCHANGED upload_raised
    /\ UNCHANGED <<handler_vars, more_vars, llm_vars, usage_vars, files, written_paths, saved_files>>

\* lines 189-225: one iteration of `for upload in files`
SaveOne ==
    /\ upload_pc = "loop"
    /\ Len(saved_files) < Len(files)
    /\ LET upload == files[Len(saved_files) + 1]
           kind == classify_upload(upload.ext)
           extension == _normalise_extension(upload.ext)
           storage_path == <<"upload", Len(saved_files) + 1>>
           document_tokens == _estimate_tokens(upload.text_len)
       IN  IF kind[1] = ""
           THEN /\ upload_raised' = "unsupported"
                /\ upload_pc' = "except"
                /\ UNCHANGED <<written_paths, saved_files, storage_dir>>
           ELSE IF upload.size = 0
           THEN /\ upload_raised' = "empty"
                /\ upload_pc' = "except"
                /\ UNCHANGED <<written_paths, saved_files, storage_dir>>
           ELSE IF upload.size > kind[2]
           THEN /\ upload_raised' = "too large"
                /\ upload_pc' = "except"
                /\ UNCHANGED <<written_paths, saved_files, storage_dir>>
           ELSE /\ storage_dir' = storage_dir \cup {storage_path}
                /\ written_paths' = Append(written_paths, storage_path)
                /\ IF kind[1] = "document" /\ extension = ".ipynb" /\ ~upload.json_ok
                   THEN /\ upload_raised' = "invalid notebook"
                        /\ upload_pc' = "except"
                        /\ UNCHANGED saved_files
                   ELSE IF kind[1] = "document" /\ document_tokens > max_document_tokens
                   THEN /\ upload_raised' = "too large"
                        /\ upload_pc' = "except"
                        /\ UNCHANGED saved_files
                   ELSE /\ saved_files' = Append(saved_files, StoredRow(storage_path, today + upload_expiry_hours))
                        /\ UNCHANGED <<upload_pc, upload_raised>>
    /\ UNCHANGED <<handler_vars, more_vars, llm_vars, usage_vars, files, uploaded_file_rows>>

\* lines 226-230: except Exception: delete the written files and re-raise
CleanUpAndRaise ==
    /\ upload_pc = "except"
    /\ storage_dir' = DeleteWritten(storage_dir, written_paths)
    /\ upload_pc' = "raised"
    /\ UNCHANGED <<handler_vars, more_vars, llm_vars, usage_vars, files, written_paths, saved_files,
                   uploaded_file_rows, upload_raised>>

\* lines 232-233: db.flush() and the return
FlushSaved ==
    /\ upload_pc = "loop"
    /\ Len(saved_files) = Len(files)
    /\ uploaded_file_rows' = uploaded_file_rows \cup {saved_files[i] : i \in 1..Len(saved_files)}
    /\ upload_pc' = "returned"
    /\ UNCHANGED <<handler_vars, more_vars, llm_vars, usage_vars, files, written_paths, saved_files,
                   storage_dir, upload_raised>>

NextUpload ==
    \/ StartSave
    \/ SaveOne
    \/ CleanUpAndRaise
    \/ FlushSaved

InitUpload ==
    /\ HandlerInit
    /\ token = AccessToken
    /\ LLMIdle
    /\ UsageIdle
    /\ MoreIdle
    /\ files \in Batches
    /\ upload_pc = "start"
    /\ written_paths = <<>>
    /\ saved_files = <<>>
    /\ storage_dir = {r.storage_path : r \in InitRows \ {GoneRow}}
    /\ uploaded_file_rows = InitRows
    /\ upload_raised = ""

SpecUpload == InitUpload /\ [][NextUpload]_vars

\* ------------------------------------------- two connections, one database
Sockets == {1, 2}

\* READ COMMITTED is the default of the database; a deployment may raise it
IsolationLevels == {"READ COMMITTED", "SERIALIZABLE"}

\* the session of TheUser that both connections can name in a frame
SharedSession == 2
UnknownSession == 9

\* the owner left in the place of a deleted chat_sessions row (ids are not reused)
Deleted == ""

\* a chat_messages row: created_at is the server default now(); socket is the
\* connection that stored it (0: stored before the connections opened)
StoredMessage(session_id, role, created_at, socket) ==
    [session_id |-> session_id, role |-> role, created_at |-> created_at,
     socket |-> socket]

\* today's daily_token_usage row of TheUser
StoredUsage(input_tokens_used, output_tokens_used, version) ==
    [input_tokens_used |-> input_tokens_used, output_tokens_used |-> output_tokens_used,
     version |-> version]

InitStore ==
    [sessions |-> <<OtherUser, TheUser>>,
     msgs |-> {StoredMessage(ForeignSession, "user", 0, 0),
               StoredMessage(ForeignSession, "assistant", 1, 0)},
     usage |-> StoredUsage(7, 1, 0),
     effective_programming_level |-> None,
     effective_maths_level |-> None]

NoSocket ==
    [pc |-> "connect", turns |-> 0, session_id |-> None,
     tx_start |-> 0, snapshot |-> StoredUsage(0, 0, 0), usage |-> StoredUsage(0, 0, 0),
     input_tokens |-> 0, output_tokens |-> 0, pending |-> {}, student_state |-> NoState,
     chat_history |-> <<>>]

\* the commits of line 508 so far: the tokens they added, who committed last
NoCommits == [input_tokens |-> 0, output_tokens |-> 0, last |-> 0]

\* the decisions of the engine in the turns of the two connections
ChatDecisions ==
    OnTopicDecisions \cup
    { [NoDecision EXCEPT !.hint_level = 3, !.programming_difficulty = 1,
                         !.maths_difficulty = 5] }

\* the session_id of a frame: none (a new session is created) or the shared one
Targets == {None, SharedSession}

\* the foreign key of chat_messages.session_id
SessionExists(sessions, session_id) ==
    session_id \in DOMAIN sessions /\ sessions[session_id] # Deleted

\* a handler that does not commit after the user message: its next statement
\* runs in the transaction of the user message
TxStartAfterCommit_SameTx(tx_start, now) == tx_start

\* line 402: after db.commit() the next statement of the session begins a new
\* transaction; now() is the start time of the transaction
TxStartAfterCommit(tx_start, now) == now

\* a write that keeps the higher of the stored and the connection's level
WriteLevels_KeepsHigher(row, state) ==
    [row EXCEPT
       !.effective_programming_level = Max(@, state.effective_programming_level),
       !.effective_maths_level = Max(@, state.effective_maths_level)]

\* lines 500-506: the effective levels of the StudentState go to the user row
WriteLevels(row, state) ==
    [row EXCEPT
       !.effective_programming_level = state.effective_programming_level,
       !.effective_maths_level = state.effective_maths_level]

\* lines 262-290: the user row is loaded and the StudentState is built
Connect(c) ==
    /\ sockets[c].pc = "connect"
    /\ sockets' = [sockets EXCEPT
         ![c].pc = "recv",
         ![c].student_state =
             [effective_programming_level |->
                  IF store.effective_programming_level # None
                  THEN store.effective_programming_level
                  ELSE programming_level * 100,
              effective_maths_level |->
                  IF store.effective_maths_level # None
                  THEN store.effective_maths_level
                  ELSE maths_level * 100,
              context_turn |-> 0]]
    /\ UNCHANGED <<not_chat_vars, clock, isolation, store, commits, rest>>

\* lines 294-402: a frame arrives; check_daily_limit sends the first
\* statement of the turn's session, which begins its transaction; then
\* get_or_create_session, save_message and the commit
ReceiveAndStore(c) ==
    /\ sockets[c].pc = "recv"
    /\ sockets[c].turns < MaxTurns
    /\ \E target \in Targets :
         LET created == get_or_create_session(store.sessions, TheUser, target)
             m == StoredMessage(created[2], "user", clock, c)
         IN  /\ store' = [store EXCEPT !.sessions = created[1], !.msgs = @ \cup {m}]
             /\ sockets' = [sockets EXCEPT
                   ![c].pc = "decide",
                   ![c].turns = @ + 1,
                   ![c].session_id = created[2],
                   ![c].input_tokens = count_tokens(Question.len),
                   ![c].tx_start = clock]
    /\ clock' = clock + 1
    /\ UNCHANGED <<not_chat_vars, isolation, commits, rest>>

\* lines 417-429: the canned reply is saved and committed; the insert fails
\* on the foreign key when the session was deleted meanwhile (lines 521-527)
CannedReply(c) ==
    /\ sockets[c].pc = "decide"
    /\ LET start == TxStartAfterCommit(sockets[c].tx_start, clock)
           m == StoredMessage(sockets[c].session_id, "assistant", start, c)
       IN  IF SessionExists(store.sessions, sockets[c].session_id)
           THEN /\ store' = [store EXCEPT !.msgs = @ \cup {m}]
                /\ sockets' = [sockets EXCEPT ![c].pc = "recv", ![c].tx_start = start]
           ELSE /\ sockets' = [sockets EXCEPT ![c].pc = "closed", ![c].tx_start = start]
                /\ UNCHANGED store
    /\ clock' = clock + 1
    /\ UNCHANGED <<not_chat_vars, isolation, commits, rest>>

\* chat_service.get_chat_history over the stored rows: the messages of the
\* session, order_by(created_at.asc())
RECURSIVE StoredHistory(_, _)
StoredHistory(msgs, session_id) ==
    LET rows == {m \in msgs : m.session_id = session_id}
    IN  IF rows = {} THEN <<>>
        ELSE LET first == CHOOSE m \in rows : \A n \in rows : m.created_at <= n.created_at
             IN  <<first>> \o StoredHistory(rows \ {first}, session_id)

\* lines 432-433: chat_history[:-1]
DropJustSaved(chat_history, c) ==
    IF chat_history # <<>> THEN SubSeq(chat_history, 1, Len(chat_history) - 1) ELSE <<>>

\* line 431: get_chat_history is the first statement after the commit of line
\* 402; under SERIALIZABLE the transaction reads from the snapshot taken here.
\* It reads what is committed by now, the rows of other connections included.
LoadHistory(c) ==
    /\ sockets[c].pc = "decide"
    /\ sockets' = [sockets EXCEPT
          ![c].pc = "stream",
          ![c].chat_history =
              DropJustSaved(StoredHistory(store.msgs, sockets[c].session_id), c),
          ![c].tx_start = TxStartAfterCommit(sockets[c].tx_start, clock),
          ![c].snapshot = store.usage]
    /\ clock' = clock + 1
    /\ UNCHANGED <<not_chat_vars, isolation, store, commits, rest>>

\* lines 475-494 and 239: the stream has ended; the StudentState is updated,
\* the assistant message is flushed, get_daily_usage selects the usage row
SaveAndSelect(c) ==
    /\ sockets[c].pc = "stream"
    /\ \E result \in ChatDecisions :
         LET state == update_context_embedding(sockets[c].student_state, result, 0)
             m == StoredMessage(sockets[c].session_id, "assistant", sockets[c].tx_start, c)
         IN  IF SessionExists(store.sessions, sockets[c].session_id)
             THEN sockets' = [sockets EXCEPT
                     ![c].pc = "flush",
                     ![c].student_state = state,
                     ![c].output_tokens = count_tokens(6),
                     ![c].pending = {m},
                     ![c].usage = IF isolation = "SERIALIZABLE"
                                  THEN sockets[c].snapshot ELSE store.usage]
             ELSE sockets' = [sockets EXCEPT ![c].pc = "closed", ![c].student_state = state]
    /\ UNCHANGED <<not_chat_vars, clock, isolation, store, commits, rest>>

\* lines 240-242 and 500-508: the counters are added in Python and flushed as
\* an UPDATE with the new values, the levels are written to the user row, the
\* turn commits.  The UPDATE takes the lock of the usage row, which its
\* transaction holds until the commit; a second UPDATE waits for it, and a
\* select reads the committed row before and after it, so the flush and the
\* commit are one step for every other transaction.  Under SERIALIZABLE the
\* UPDATE fails when the row has changed since the snapshot; under READ
\* COMMITTED it is applied to the row as it now is.
CommitTurn(c) ==
    /\ sockets[c].pc = "flush"
    /\ IF isolation = "SERIALIZABLE" /\ store.usage.version # sockets[c].snapshot.version
       THEN /\ sockets' = [sockets EXCEPT ![c].pc = "closed", ![c].pending = {}]
            /\ UNCHANGED <<store, commits>>
       ELSE /\ store' = [WriteLevels(store, sockets[c].student_state) EXCEPT
                          !.msgs = @ \cup sockets[c].pending,
                          !.usage = StoredUsage(
                              sockets[c].usage.input_tokens_used + sockets[c].input_tokens,
                              sockets[c].usage.output_tokens_used + sockets[c].output_tokens,
                              store.usage.version + 1)]
            /\ commits' = [input_tokens |-> commits.input_tokens + sockets[c].input_tokens,
                           output_tokens |-> commits.output_tokens + sockets[c].output_tokens,
                           last |-> c]
            /\ sockets' = [sockets EXCEPT ![c].pc = "recv", ![c].pending = {}]
    /\ UNCHANGED <<not_chat_vars, clock, isolation, rest>>

\* a delete that looks the session up by its id alone
delete_session_AnyOwner(view, user_id, session_id) ==
    IF SessionExists(view.sessions, session_id)
    THEN <<TRUE, [view EXCEPT
                    !.sessions = [@ EXCEPT ![session_id] = Deleted],
                    !.msgs = {m \in @ : m.session_id # session_id}]>>
    ELSE <<FALSE, view>>

\* chat_service.delete_session: <<TRUE, the rows after the call>>, or FALSE
delete_session(view, user_id, session_id) ==
    IF SessionExists(view.sessions, session_id) /\ view.sessions[session_id] = user_id
    THEN <<TRUE, [view EXCEPT
                    !.sessions = [@ EXCEPT ![session_id] = Deleted],
                    !.msgs = {m \in @ : m.session_id # session_id}]>>
    ELSE <<FALSE, view>>

\* chat_service.get_session_messages: <<found, the messages returned>>
get_session_messages(view, user_id, session_id) ==
    IF SessionExists(view.sessions, session_id) /\ view.sessions[session_id] = user_id
    THEN <<TRUE, {m \in view.msgs : m.session_id = session_id}>>
    ELSE <<FALSE, {}>>

\* the session ids a REST caller names: the two sessions that exist before
\* the connections open, a session a connection created, an id of no session
SessionIds == {ForeignSession, SharedSession, SharedSession + 1, UnknownSession}

\* DELETE /api/chat/sessions/{id}, chat.py 196-209: 404, or delete and commit.
\* The DELETE of the session row waits for a transaction that has inserted a
\* message of the session and not yet committed.
DeleteSession(caller, session_id) ==
    /\ rest.calls < MaxCalls
    /\ \A c \in Sockets : \A m \in sockets[c].pending : m.session_id # session_id
    /\ LET deleted == delete_session(store, caller, session_id)
       IN  /\ store' = deleted[2]
           /\ rest' = [op |-> "delete", caller |-> caller, session_id |-> session_id,
                       status |-> IF deleted[1] THEN 200 ELSE 404, returned |-> {},
                       calls |-> rest.calls + 1]
    /\ UNCHANGED <<not_chat_vars, clock, isolation, sockets, commits>>

\* GET /api/chat/sessions/{id}/messages, chat.py 212-226
GetSessionMessages(caller, session_id) ==
    /\ rest.calls < MaxCalls
    /\ LET messages == get_session_messages(store, caller, session_id)
       IN  rest' = [op |-> "messages", caller |-> caller, session_id |-> session_id,
                    status |-> IF messages[1] THEN 200 ELSE 404,
                    returned |-> messages[2], calls |-> rest.calls + 1]
    /\ UNCHANGED <<not_chat_vars, clock, isolation, store, sockets, commits>>

\* the owner deletes the shared session while the connections write to it
OwnerDeletesShared == DeleteSession(TheUser, SharedSession)

NextChat ==
    \/ \E c \in Sockets : Connect(c)
    \/ \E c \in Sockets : ReceiveAndStore(c)
    \/ \E c \in Sockets : CannedReply(c)
    \/ \E c \in Sockets : LoadHistory(c)
    \/ \E c \in Sockets : SaveAndSelect(c)
    \/ \E c \in Sockets : CommitTurn(c)
    \/ OwnerDeletesShared

InitChat ==
    /\ HandlerInit
    /\ token = AccessToken
    /\ LLMIdle
    /\ UsageIdle
    /\ UploadIdle
    /\ ContextIdle
    /\ GlobalsIdle
    /\ DecodeIdle
    /\ clock = 2
    /\ isolation \in IsolationLevels
    /\ store = InitStore
    /\ sockets = [c \in Sockets |-> NoSocket]
    /\ commits = NoCommits
    /\ rest = NoRest

SpecChat == InitChat /\ [][NextChat]_vars

\* one connection and the REST calls of any user on any session
NextRest ==
    \/ Connect(1)
    \/ ReceiveAndStore(1)
    \/ CannedReply(1)
    \/ LoadHistory(1)
    \/ SaveAndSelect(1)
    \/ CommitTurn(1)
    \/ \E caller \in Users, session_id \in SessionIds : DeleteSession(caller, session_id)
    \/ \E caller \in Users, session_id \in SessionIds : GetSessionMessages(caller, session_id)

SpecRest == InitChat /\ [][NextRest]_vars

\* ------------------------------------------------------ the context builder
\* build_context_messages(chat_history, user_message, llm, max_context_tokens,
\* compression_threshold), as section 4.4 of the specification describes it.
\* A message is its role, where it comes from and its weight by count_tokens.
ContextMessage(role, kind, tokens) == [role |-> role, kind |-> kind, tokens |-> tokens]

\* the weights of the messages of a stored history
HistoryWeights == {100, 300}
\* the weights of the enriched user message that line 375 lets pass
UserWeights == {100, 400, llm_max_user_input_tokens}
\* the values of llm_max_context_tokens; config.py gives it no default and
\* does not relate it to llm_max_user_input_tokens
ContextBudgets == {500, 1000}
\* the values of context_compression_threshold, in hundredths
CompressionThresholds == {50, 100}
\* what the builder reserves for the system prompt, which it is not given
SystemPromptReserve == 200
\* the weights of a summary: the summarisation asks for at most 300 tokens
SummaryTokenLimit == 300
SummaryWeights == {20, SummaryTokenLimit}

\* the histories get_chat_history returns, oldest first
Histories ==
    UNION { [1..n -> {ContextMessage(role, "history", w) :
                          role \in {"user", "assistant"}, w \in HistoryWeights}] :
            n \in 0..MaxHistory }

TotalTokens(messages) == SumSeq([i \in 1..Len(messages) |-> messages[i].tokens])

\* step 2: from the most recent message to the oldest, the messages that fit
RECURSIVE KeptSlice(_, _)
KeptSlice(chat_history, remaining) ==
    IF chat_history = <<>> THEN <<>>
    ELSE LET last == chat_history[Len(chat_history)]
         IN  IF last.tokens > remaining THEN <<>>
             ELSE Append(KeptSlice(SubSeq(chat_history, 1, Len(chat_history) - 1),
                                   remaining - last.tokens),
                         last)

\* step 1: what is left of the budget after the reserve
Remaining(user_message, max_context_tokens) ==
    max_context_tokens - (SystemPromptReserve + user_message)

DroppedPrefix(chat_history, kept) == SubSeq(chat_history, 1, Len(chat_history) - Len(kept))

\* step 3: the dropped prefix is summarised when it weighs more than (1 - r) B
NeedsSummary(dropped, max_context_tokens, compression_threshold) ==
    /\ dropped # <<>>
    /\ TotalTokens(dropped) * 100 > (100 - compression_threshold) * max_context_tokens

\* steps 1 to 4; summary is the weight of the summary the provider returned,
\* or 0 when none was asked for or the call failed
build_context_messages(chat_history, user_message, max_context_tokens, compression_threshold, summary) ==
    LET remaining == Remaining(user_message, max_context_tokens)
        kept == KeptSlice(chat_history, remaining)
        head == IF summary > 0 THEN <<ContextMessage("user", "summary", summary)>> ELSE <<>>
    IN  head \o kept \o <<ContextMessage("user", "current", user_message)>>

ContextNeedsSummary ==
    LET kept == KeptSlice(context.chat_history,
                          Remaining(context.user_message, context.max_context_tokens))
    IN  NeedsSummary(DroppedPrefix(context.chat_history, kept),
                     context.max_context_tokens, context.compression_threshold)

Built(summary) ==
    [context EXCEPT
       !.pc = "built",
       !.summary = summary,
       !.messages = build_context_messages(context.chat_history, context.user_message,
                                           context.max_context_tokens,
                                           context.compression_threshold, summary)]

\* chat.py 441-447: the call returns without a summarisation
BuildPlain ==
    /\ context.pc = "call"
    /\ ~ContextNeedsSummary
    /\ context' = Built(0)
    /\ UNCHANGED not_context_vars

\* the dropped prefix is summarised and the summary is prepended
BuildSummarised ==
    /\ context.pc = "call"
    /\ ContextNeedsSummary
    /\ \E summary \in SummaryWeights : context' = Built(summary)
    /\ UNCHANGED not_context_vars

\* the summarisation fails: the prefix is dropped silently
BuildSummaryFailed ==
    /\ context.pc = "call"
    /\ ContextNeedsSummary
    /\ context' = [Built(0) EXCEPT !.summary = None]
    /\ UNCHANGED not_context_vars

NextContext ==
    \/ BuildPlain
    \/ BuildSummarised
    \/ BuildSummaryFailed

InitContext ==
    /\ HandlerInit
    /\ token = AccessToken
    /\ LLMIdle
    /\ UsageIdle
    /\ UploadIdle
    /\ ChatIdle
    /\ GlobalsIdle
    /\ DecodeIdle
    /\ context \in [pc : {"call"},
                     chat_history : Histories,
                     user_message : UserWeights,
                     max_context_tokens : ContextBudgets,
                     compression_threshold : CompressionThresholds,
                     summary : {0},
                     messages : {<<>>}]

SpecContext == InitContext /\ [][NextContext]_vars

\* ------------------------------------------------- the process-global services
\* chat.py 39-56.  The calls run as tasks of one event loop: a task runs
\* until it awaits something that suspends it.  Each connection calls
\* _get_services once with the provider object get_llm_provider built for it.
Callers == 1..MaxCallers

\* the global _embedding_service: how many services were constructed for it
\* (none: the global is None), how often initialize() completed on the one it
\* holds, and whether that one is ready
EmbeddingService(constructed, initialised, ready) ==
    [constructed |-> constructed, initialised |-> initialised, ready |-> ready]

NoService == EmbeddingService(0, 0, FALSE)

NoCaller == [pc |-> "call", received |-> None]

\* what a caller holds of the embedding service it was returned
Received(service) == IF service.ready THEN "ready" ELSE "uninitialised"

\* lines 54-56: the engine is rebuilt unless it holds this caller's llm, and
\* the two globals are returned; no await, so the caller is not suspended
ReturnServices(k, from) ==
    /\ callers[k].pc = from
    /\ _pedagogy_engine' = k
    /\ callers' = [callers EXCEPT ![k].pc = "returned",
                                  ![k].received = Received(_embedding_service')]

\* lines 47-53, up to the await: the global is None, the service is
\* constructed and assigned, initialize() is entered and suspends
ConstructAndAwait(k) ==
    /\ callers[k].pc = "call"
    /\ _embedding_service = NoService
    /\ _embedding_service' = EmbeddingService(1, 0, FALSE)
    /\ callers' = [callers EXCEPT ![k].pc = "initialize"]
    /\ UNCHANGED <<not_global_vars, _pedagogy_engine>>

\* lines 47-56 when initialize() completes without suspending
ConstructAndInitialise(k) ==
    /\ _embedding_service = NoService
    /\ _embedding_service' = EmbeddingService(1, 1, TRUE)
    /\ ReturnServices(k, "call")
    /\ UNCHANGED not_global_vars

\* lines 47 and 54-56: the global is set, the construction is skipped
SkipConstruction(k) ==
    /\ _embedding_service # NoService
    /\ UNCHANGED _embedding_service
    /\ ReturnServices(k, "call")
    /\ UNCHANGED not_global_vars

\* lines 53-56: the suspended initialize() completes
InitializeCompletes(k) ==
    /\ _embedding_service' = [_embedding_service EXCEPT !.initialised = @ + 1, !.ready = TRUE]
    /\ ReturnServices(k, "initialize")
    /\ UNCHANGED not_global_vars

\* line 53: initialize() raises; the global stays assigned, the exception
\* leaves _get_services and the handler closes the connection (271-276)
InitializeRaises(k) ==
    /\ callers[k].pc = "initialize"
    /\ callers' = [callers EXCEPT ![k].pc = "raised"]
    /\ UNCHANGED <<not_global_vars, _embedding_service, _pedagogy_engine>>

NextGlobals ==
    \/ \E k \in Callers : ConstructAndAwait(k)
    \/ \E k \in Callers : ConstructAndInitialise(k)
    \/ \E k \in Callers : SkipConstruction(k)
    \/ \E k \in Callers : InitializeCompletes(k)
    \/ \E k \in Callers : InitializeRaises(k)

InitGlobals ==
    /\ HandlerInit
    /\ token = AccessToken
    /\ LLMIdle
    /\ UsageIdle
    /\ UploadIdle
    /\ ChatIdle
    /\ ContextIdle
    /\ DecodeIdle
    /\ _embedding_service = NoService
    /\ _pedagogy_engine = None
    /\ callers = [k \in Callers |-> NoCaller]

SpecGlobals == InitGlobals /\ [][NextGlobals]_vars

\* ------------------------------------------------- decoding a response body
\* llm_openai.py 94-111 and llm_anthropic.py 69-85: the loop over
\* response.aiter_lines() of a 200 response.  A line is whether it starts with
\* "data: " and what follows the prefix: the end sentinel, text that json.loads
\* rejects, a JSON object (whether it is an event that carries incremental
\* text, and that text), or JSON that is not an object ([], null, a number).
BodyLine(prefix, payload, delta, text) ==
    [prefix |-> prefix, payload |-> payload, delta |-> delta, text |-> text]

NoPrefixLine == BodyLine(FALSE, "object", TRUE, "a")
DoneLine == BodyLine(TRUE, "[DONE]", FALSE, "")
NotJsonLine == BodyLine(TRUE, "not json", FALSE, "")
TextLineA == BodyLine(TRUE, "object", TRUE, "a")
TextLineB == BodyLine(TRUE, "object", TRUE, "b")
EmptyTextLine == BodyLine(TRUE, "object", TRUE, "")
OtherEventLine == BodyLine(TRUE, "object", FALSE, "a")
NonObjectLine == BodyLine(TRUE, "non-object", FALSE, "")

BodyLines ==
    {NoPrefixLine, DoneLine, NotJsonLine, TextLineA, TextLineB, EmptyTextLine,
     OtherEventLine, NonObjectLine}

Bodies == UNION {[1..n -> BodyLines] : n \in 0..MaxLines}

CurrentLine == decode.body[decode.i]

HasLine == decode.pc = "lines" /\ decode.i <= Len(decode.body)

NextLine == [decode EXCEPT !.i = @ + 1]

\* lines 95-96: a line without the prefix
SkipLine ==
    /\ HasLine
    /\ ~CurrentLine.prefix
    /\ decode' = NextLine
    /\ UNCHANGED not_decode_vars

\* lines 98-99 and 111: the end sentinel breaks the loop, the generator returns
EndSentinel ==
    /\ HasLine
    /\ CurrentLine.prefix
    /\ CurrentLine.payload = "[DONE]"
    /\ decode' = [decode EXCEPT !.pc = "returned"]
    /\ UNCHANGED not_decode_vars

\* lines 100-103: json.loads raises JSONDecodeError, the line is skipped
SkipNotJson ==
    /\ HasLine
    /\ CurrentLine.prefix
    /\ CurrentLine.payload = "not json"
    /\ decode' = NextLine
    /\ UNCHANGED not_decode_vars

\* lines 105-110: an object; its text is yielded when it is an event that
\* carries text and the text is not empty
DecodeEvent ==
    /\ HasLine
    /\ CurrentLine.prefix
    /\ CurrentLine.payload = "object"
    /\ decode' = IF CurrentLine.delta /\ CurrentLine.text # ""
                  THEN [NextLine EXCEPT !.chunks = Append(@, CurrentLine.text)]
                  ELSE NextLine
    /\ UNCHANGED not_decode_vars

\* line 105 (openai), line 80 (anthropic): event.get on a value that is not a
\* dict raises AttributeError, which `except Exception` turns into LLMError
RaiseOnNonObject ==
    /\ HasLine
    /\ CurrentLine.prefix
    /\ CurrentLine.payload = "non-object"
    /\ decode' = [decode EXCEPT !.pc = "LLMError"]
    /\ UNCHANGED not_decode_vars

\* line 111: the body is exhausted, the generator returns
BodyEnds ==
    /\ decode.pc = "lines"
    /\ decode.i > Len(decode.body)
    /\ decode' = [decode EXCEPT !.pc = "returned"]
    /\ UNCHANGED not_decode_vars

NextDecode ==
    \/ SkipLine
    \/ EndSentinel
    \/ SkipNotJson
    \/ DecodeEvent
    \/ RaiseOnNonObject
    \/ BodyEnds

InitDecode ==
    /\ HandlerInit
    /\ token = AccessToken
    /\ LLMIdle
    /\ UsageIdle
    /\ UploadIdle
    /\ ChatIdle
    /\ ContextIdle
    /\ GlobalsIdle
    /\ decode \in [body : Bodies, i : {1}, chunks : {<<>>}, pc : {"lines"}]

SpecDecode == InitDecode /\ [][NextDecode]_vars

\* ------------------------------------------------------------ type check
TypeOK ==
    /\ pc \in {"connect", "init", "recv", "validate", "pedagogy", "context",
               "stream", "post", "done", "closed"}
    /\ token \in Tokens
    /\ accepted \in BOOLEAN
    /\ closeCode \in {0, 1000, 4001}
    /\ clientGone \in BOOLEAN
    /\ today \in 0..MaxDay
    /\ nframes \in 0..MaxFrames
    /\ Len(outcome) = nframes

\* ------------------------------------------------- vocabulary of the claims

\* the counters of a day, 0 when the day has no row
InputUsed(rows, day) ==
    IF \E r \in rows : r.user_id = TheUser /\ r.date = day
    THEN UsageRowOf(rows, TheUser, day).input_tokens_used ELSE 0
OutputUsed(rows, day) ==
    IF \E r \in rows : r.user_id = TheUser /\ r.date = day
    THEN UsageRowOf(rows, TheUser, day).output_tokens_used ELSE 0

Days == 0..MaxDay

SameCounters(rows1, rows2) ==
    \A d \in Days : /\ InputUsed(rows1, d) = InputUsed(rows2, d)
                    /\ OutputUsed(rows1, d) = OutputUsed(rows2, d)

MessagesOf(msgs, turn_id, role) ==
    {m \in Range(msgs) : m.turn = turn_id /\ m.role = role}

EventsOfType(type) == SelectSeq(events, LAMBDA e : e.type = type)

\* the current turn is over and the handler is back at receive_text
TurnOver == nframes > 0 /\ pc = "recv"

\* C1: an assistant message of a turn is stored only when the answer stream of
\* that turn completed without error (a canned reply is stored without an
\* answer stream); a turn whose stream raised LLMError, after zero or more
\* chunks, leaves its user message and no assistant message in the database.
C1_AssistantOnlyAfterCompleteStream ==
    /\ \A m \in Range(db.msgs) \cup Range(tx.msgs) :
         m.role = "assistant" =>
            /\ outcome[m.turn].stream # "error"
            /\ m.content.kind = "generated" => outcome[m.turn].stream = "ok"
            /\ m.content.kind # "generated" => outcome[m.turn].stream = "none"
    /\ \A t \in 1..nframes :
         outcome[t].stream = "error" =>
            /\ MessagesOf(db.msgs, t, "assistant") = {}
            /\ MessagesOf(tx.msgs, t, "assistant") = {}
            /\ Cardinality(MessagesOf(db.msgs, t, "user")) = 1

\* a turn failed with LLMError after two chunks and the loop went on
C1_Witness ==
    /\ TurnOver
    /\ outcome[nframes].status = "llm_error"
    /\ Len(EventsOfType("token")) = 2
    /\ events[Len(events)].type = "error"
    /\ MessagesOf(db.msgs, nframes, "user") # {}

\* C2 as stated: after a stream that failed with LLMError after some tokens,
\* today's input_tokens_used has grown by the input estimate of the turn and
\* output_tokens_used is unchanged.
C2_InputChargedOnLLMError ==
    (/\ TurnOver
     /\ outcome[nframes].status = "llm_error"
     /\ Len(EventsOfType("token")) > 0)
    => /\ InputUsed(db.usage, today) = InputUsed(turn.usage0, today) + turn.input_tokens
       /\ OutputUsed(db.usage, today) = OutputUsed(turn.usage0, today)

\* C2 amended: a stream that failed with LLMError leaves both daily counters
\* of every day as they were before the turn; the input estimate of the turn
\* is kept only on the stored user message.
C2_NothingChargedOnLLMError ==
    (/\ TurnOver
     /\ outcome[nframes].status = "llm_error")
    => /\ SameCounters(db.usage, turn.usage0)
       /\ \A m \in MessagesOf(db.msgs, nframes, "user") :
            m.input_tokens = turn.input_tokens /\ m.input_tokens > 0

\* a turn with an image failed after one token: 520 tokens estimated, 0 charged
C2_Witness ==
    /\ TurnOver
    /\ outcome[nframes].status = "llm_error"
    /\ Len(EventsOfType("token")) > 0
    /\ turn.input_tokens = 520
    /\ InputUsed(db.usage, today) = 0

\* the turn of frame t ended with a done event and was committed on day d;
\* a message stored before the connection (turn 0) belongs to no turn of it
DoneOn(t, d) == t \in DOMAIN outcome /\ outcome[t].status = "done" /\ outcome[t].day = d

RECURSIVE SumInputTokens(_, _)
SumInputTokens(msgs, d) ==
    IF msgs = <<>> THEN 0
    ELSE (IF Head(msgs).role = "user" /\ DoneOn(Head(msgs).turn, d)
          THEN Head(msgs).input_tokens ELSE 0) + SumInputTokens(Tail(msgs), d)

RECURSIVE SumOutputTokens(_, _)
SumOutputTokens(msgs, d) ==
    IF msgs = <<>> THEN 0
    ELSE (IF Head(msgs).role = "assistant" /\ DoneOn(Head(msgs).turn, d)
          THEN Head(msgs).output_tokens ELSE 0) + SumOutputTokens(Tail(msgs), d)

QuotaReached(rows, day) ==
    \/ InputUsed(rows, day) >= user_daily_input_token_limit
    \/ OutputUsed(rows, day) >= user_daily_output_token_limit

\* the frame passes the parsing of step 1 and is not dropped as empty
ReachesQuotaCheck(f) ==
    /\ f.json_ok
    /\ f.upload_ids.is_list =>
          /\ Len(f.upload_ids.ids) <=
                upload_max_images_per_message + upload_max_documents_per_message
          /\ \A id \in Range(f.upload_ids.ids) : id \in WellFormedIds
    /\ ~(Strip(f.content) = 0 /\ (~f.upload_ids.is_list \/ f.upload_ids.ids = <<>>))

\* C4: a turn handled while a daily counter of the user has reached its limit
\* ends in that step: no token event, no assistant message, and the handler
\* is back at receive_text; when its frame reaches the quota check it has sent
\* exactly one error event, whose message mentions the limit.
C4_OverLimitTurnRejected ==
    [][ (pc = "validate" /\ pc' # "validate" /\ QuotaReached(db.usage, today))
        => /\ \A i \in DOMAIN events' : events'[i].type # "token"
           /\ db'.msgs = db.msgs /\ tx'.msgs = db.msgs
           /\ pc' \in {"recv", "closed"}
           /\ ~clientGone => pc' = "recv"
           /\ (ReachesQuotaCheck(frame) /\ ~clientGone)
                 => /\ events' = <<ErrorEvent(MsgDailyLimit)>>
                    /\ MentionsLimit(events'[1].message) ]_vars

\* the second turn was refused because the first used up the day's input
C4_Witness ==
    /\ pc = "recv"
    /\ nframes = 2
    /\ outcome[1].status = "done"
    /\ InputUsed(db.usage, today) >= user_daily_input_token_limit
    /\ events = <<ErrorEvent(MsgDailyLimit)>>
    /\ MessagesOf(db.msgs, 2, "assistant") = {}

\* the handler met the disconnect at a send after the commit of the user message
DisconnectedAfterUserCommit ==
    pc = "closed" /\ closedAt \in {"session", "canned", "token", "error", "done"}

\* C5 as stated: a disconnect met anywhere between the commit of the user
\* message and the delivery of done leaves the user message, no assistant
\* message of the turn, and the daily counters as before the turn.
C5_DisconnectNeverStoresAnswer ==
    DisconnectedAfterUserCommit =>
        /\ Cardinality(MessagesOf(db.msgs, nframes, "user")) = 1
        /\ MessagesOf(db.msgs, nframes, "assistant") = {}
        /\ SameCounters(db.usage, turn.usage0)

\* C5 amended: a disconnect met at a send made before the post-stream commit
\* (the session, canned, token or error event) leaves the user message, no
\* assistant message of the turn and the counters as before the turn; a
\* disconnect met only at the send of done leaves the assistant message and
\* the usage of the turn committed.
C5_DisconnectBeforePostCommit ==
    /\ (pc = "closed" /\ closedAt \in {"session", "canned", "token", "error"})
          => /\ Cardinality(MessagesOf(db.msgs, nframes, "user")) = 1
             /\ MessagesOf(db.msgs, nframes, "assistant") = {}
             /\ MessagesOf(tx.msgs, nframes, "assistant") = {}
             /\ SameCounters(db.usage, turn.usage0)
    /\ (pc = "closed" /\ closedAt = "done")
          => /\ Cardinality(MessagesOf(db.msgs, nframes, "user")) = 1
             /\ Cardinality(MessagesOf(db.msgs, nframes, "assistant")) = 1
             /\ InputUsed(db.usage, outcome[nframes].day) =
                   InputUsed(turn.usage0, outcome[nframes].day) + turn.input_tokens
             /\ OutputUsed(db.usage, outcome[nframes].day) =
                   OutputUsed(turn.usage0, outcome[nframes].day)
                   + count_tokens(SumSeq(turn.full_response))

\* the client left in mid-stream: one token was delivered, the next send failed
C5_Witness ==
    /\ pc = "closed"
    /\ closedAt = "token"
    /\ Len(EventsOfType("token")) = 1
    /\ Len(turn.full_response) = 2
    /\ MessagesOf(db.msgs, nframes, "user") # {}

\* the frame that lines 331-332 drop: no text and no upload ids
EmptyFrame(f) ==
    /\ f.json_ok
    /\ Strip(f.content) = 0
    /\ ~f.upload_ids.is_list \/ f.upload_ids.ids = <<>>

TerminalEvent(evs) ==
    evs # <<>> /\ evs[Len(evs)].type \in {"done", "canned", "error"}

\* C6 as stated: the handler is at receive_text, ready to read the next
\* frame, only when the turn of the frame before it has sent done, canned or
\* error and its session is committed or rolled back; for every frame, the
\* empty ones included.
C6_NextFrameAfterTerminalEvent ==
    (pc = "recv" /\ nframes >= 1) => TerminalEvent(events) /\ tx = db

\* C6 amended: the same for every frame but the one with empty content and no
\* upload ids, which is dropped with no event and no database work before the
\* next frame is read.
C6_NextFrameAfterTurnEnd ==
    /\ pc \in {"recv", "validate"} => tx = db
    /\ (pc = "recv" /\ nframes >= 1)
          => /\ ~EmptyFrame(frame) => TerminalEvent(events)
             /\ EmptyFrame(frame)
                   => /\ events = <<>>
                      /\ outcome[nframes].status = "skipped"
                      /\ db.msgs = turn.msgs0
    /\ pc \in {"validate", "pedagogy", "context", "stream", "post", "done"}
          => outcome[nframes].status \in {"open", "committed"}
    /\ \A t \in 1..(nframes - 1) :
          outcome[t].status \in {"skipped", "rejected", "canned", "llm_error", "done"}

\* the second frame is being handled after the first turn ended with done
C6_Witness ==
    /\ nframes = 2
    /\ pc = "validate"
    /\ outcome[1].status = "done"
    /\ frame # NoFrame
    /\ tx = db

\* the frame carries a non-empty list of upload ids
CarriesUploadIds(f) == f.upload_ids.is_list /\ f.upload_ids.ids # <<>>

\* C7: a turn whose frame carries a non-empty upload_ids list sends no canned
\* event; the engine is called with enable_topic_filters = FALSE exactly when
\* an upload was resolved, and such a turn goes on to the streaming path.
C7_NoCannedWithUploads ==
    /\ CarriesUploadIds(frame) => EventsOfType("canned") = <<>>
    /\ pc \in {"pedagogy", "context", "stream", "post", "done"}
          => (turn.enable_topic_filters <=> turn.uploads = <<>>)
    /\ (nframes > 0 /\ turn.uploads # <<>>)
          => /\ turn.result.filter_result = ""
             /\ outcome[nframes].status # "canned"
             /\ MessagesOf(db.msgs, nframes, "assistant") # {}
                   => outcome[nframes].stream = "ok"

\* a turn with an image was answered by the stream
C7_Witness ==
    /\ TurnOver
    /\ CarriesUploadIds(frame)
    /\ turn.uploads # <<>>
    /\ ~turn.enable_topic_filters
    /\ outcome[nframes].status = "done"
    /\ EventsOfType("token") # <<>>

\* C8: a turn whose decision has filter_result set, and whose client is still
\* there, has sent the session event and then one canned event and nothing
\* else, has not called generate_stream for the answer, and after its commit
\* the session ends with the user message of the turn followed by an
\* assistant message whose content is the canned response.
C8_CannedTurn ==
    (turn.result.filter_result # "" /\ closedAt # "canned")
    => /\ pc \in {"recv", "closed"}
       /\ outcome[nframes].status = "canned"
       /\ events = <<SessionEvent(turn.session_id),
                     CannedEvent(turn.result.canned_response, turn.result.filter_result)>>
       /\ turn.stream_calls = 0
       /\ tx = db
       /\ LET h == get_chat_history(db.msgs, turn.session_id)
          IN  /\ Len(h) >= 2
              /\ h[Len(h) - 1].role = "user" /\ h[Len(h) - 1].turn = nframes
              /\ h[Len(h)].role = "assistant" /\ h[Len(h)].turn = nframes
              /\ h[Len(h)].content = turn.result.canned_response
              /\ turn.result.canned_response # NoText

\* a greeting was answered with the canned reply in a session that had a
\* turn before
C8_Witness ==
    /\ TurnOver
    /\ nframes = 2
    /\ turn.result.filter_result = "greeting"
    /\ outcome[nframes].status = "canned"
    /\ Len(get_chat_history(db.msgs, turn.session_id)) = 4

\* the tokens the handshake must refuse
RefusedToken(tk) ==
    \/ ~tk.decodes
    \/ tk.token_type # "access"
    \/ tk.sub = ""
    \/ tk.sub \notin Users

\* C9: a connection whose token is invalid or expired, not an access token,
\* without subject or of no existing user is closed with 4001, is never
\* accepted and has no frame read; a valid access token is accepted.
C9_Handshake ==
    pc # "connect" =>
        /\ RefusedToken(token)
              => /\ pc = "closed" /\ closeCode = 4001
                 /\ ~accepted
                 /\ nframes = 0 /\ events = <<>>
        /\ ~RefusedToken(token) => accepted /\ closeCode # 4001

\* a well-signed refresh token of an existing user was refused with 4001
C9_Witness ==
    /\ pc = "closed"
    /\ closeCode = 4001
    /\ ~accepted
    /\ token.decodes /\ token.token_type = "refresh" /\ token.sub = TheUser

\* the kinds of invalid per-turn input
InvalidInput(f, day) ==
    LET ids == f.upload_ids.ids
        max_items == upload_max_images_per_message + upload_max_documents_per_message
        images == SelectSeq(ids, LAMBDA id : id \in DOMAIN UploadedFiles
                                              /\ UploadedFiles[id].file_type = "image")
        documents == SelectSeq(ids, LAMBDA id : id \in DOMAIN UploadedFiles
                                              /\ UploadedFiles[id].file_type = "document")
    IN  \/ ~f.json_ok
        \/ /\ f.json_ok
           /\ f.upload_ids.is_list
           /\ \/ Len(ids) > max_items
              \/ \E id \in Range(ids) : id \notin WellFormedIds
              \/ \E id \in Range(ids) :
                    \/ id \notin DOMAIN UploadedFiles
                    \/ id \in DOMAIN UploadedFiles
                       /\ \/ UploadedFiles[id].user_id # TheUser
                          \/ UploadedFiles[id].expires_at < day
              \/ Len(images) > upload_max_images_per_message
              \/ Len(documents) > upload_max_documents_per_message
              \/ count_tokens(_build_enriched_message(Strip(f.content), documents))
                    + ImageTokenCost * Len(images) > llm_max_user_input_tokens

\* C10: handling a frame with invalid input (malformed, ill-formed upload id,
\* too many upload ids, unresolvable attachment, slot cap or input size
\* exceeded) sends exactly one error event to a client that is still there,
\* stores nothing, closes nothing and returns to receive_text; the server
\* closes with 4001 only before accepting, and with another code only when
\* the services or the engine fail.
C10_InvalidInputKeepsConnection ==
    [][ /\ (pc = "validate" /\ pc' # "validate" /\ ~clientGone
            /\ InvalidInput(frame, today))
           => /\ pc' = "recv"
              /\ Len(events') = 1 /\ events'[1].type = "error"
              /\ closeCode' = closeCode
              /\ db' = db
        /\ closeCode' # closeCode
           => \/ closeCode' = 4001 /\ pc = "connect" /\ ~accepted'
              \/ closeCode' = 1000 /\ pc \in {"init", "pedagogy"} ]_vars

\* a frame was refused with an error event and the next frame is being
\* answered
C10_Witness ==
    /\ nframes = 2
    /\ outcome[1].status = "rejected"
    /\ pc = "stream"
    /\ closeCode = 0
    /\ accepted


\* C11 as stated: an LLMError at any point of a turn (a classifier call, the
\* summarisation call, the answer stream) is sent to the client as an error
\* event and the connection stays open.
C11_EveryLLMErrorIsAnErrorEvent ==
    /\ (TurnOver /\ outcome[nframes].status = "llm_error")
          => /\ closeCode = 0
             /\ events[Len(events)] = ErrorEvent(MsgUnavailable)
    /\ (pc = "post" /\ turn.llm_failed # {})
          => /\ closeCode = 0
             /\ EventsOfType("error") # <<>>

\* C11 amended: an LLMError of the answer stream is sent to the client as
\* one error event, after the tokens already sent, and the handler goes back
\* to receive_text with the connection open; an LLMError of a classifier call
\* or of the summarisation call is absorbed where it is raised (default
\* decision, prefix dropped): it sends no error event, closes nothing, and the
\* turn goes on to the answer stream.
C11_StreamLLMErrorIsAnErrorEvent ==
    /\ outcome # <<>> /\ outcome[nframes].status = "llm_error"
          => /\ pc = "recv" \/ (pc = "closed" /\ closedAt = "recv")
             /\ closeCode = 0
             /\ Len(EventsOfType("error")) = 1
             /\ events[Len(events)] = ErrorEvent(MsgUnavailable)
    /\ (/\ turn.llm_failed # {}
        /\ outcome[nframes].status \notin {"llm_error", "store_error"}
        /\ outcome[nframes].stream # "error")
          => /\ EventsOfType("error") = <<>>
             /\ closeCode = 0
             /\ pc \in {"context", "stream", "post", "done", "recv", "closed"}
             /\ pc = "closed" => closedAt \in {"token", "done", "recv"}

\* a turn whose stream failed was followed by a turn that was answered to
\* the end although its classifier call and its summarisation call failed
C11_Witness ==
    /\ TurnOver
    /\ nframes = 2
    /\ outcome[1].status = "llm_error"
    /\ outcome[2].status = "done"
    /\ turn.llm_failed = {"classify", "summarise"}
    /\ events[Len(events)].type = "done"


\* C12: when a database call or a commit of a turn raises, the turn ends
\* there: nothing the turn had flushed and not committed reaches the
\* database, the handler is left, and a client that is still connected gets
\* the "Internal error" event as the last event and the close.
C12_StoreFailureIsFatal ==
    [][ (/\ nframes > 0
         /\ nframes' = nframes
         /\ outcome[nframes].status # "store_error"
         /\ outcome'[nframes].status = "store_error")
        => /\ db' = db
           /\ tx' = db
           /\ pc' = "closed"
           /\ ~clientGone => /\ closeCode' = 1000
                             /\ events' # <<>>
                             /\ events'[Len(events')] = ErrorEvent(MsgInternal)
                             /\ Len(events') > Len(events) ]_vars

\* the commit after a complete answer stream failed: the user message of the
\* turn is in the database, its assistant message and its usage are not
C12_Witness ==
    /\ pc = "closed"
    /\ closedAt = "store"
    /\ closeCode = 1000
    /\ outcome[nframes].status = "store_error"
    /\ outcome[nframes].stream = "ok"
    /\ turn.full_response # <<>>
    /\ MessagesOf(db.msgs, nframes, "user") # {}
    /\ MessagesOf(db.msgs, nframes, "assistant") = {}
    /\ InputUsed(db.usage, today) = 0
    /\ events[Len(events)] = ErrorEvent(MsgInternal)


\* the outcomes of a request, as the claims name them
TransportTimeout(r) ==
    r.kind = "timeout" \/ (r.kind = "status" /\ r.ending = "timeout")
Status429Or5xx(r) ==
    r.kind = "status" /\ (r.status_code = 429 \/ r.status_code \in 500..599)
ClientError(r) ==
    r.kind = "status" /\ r.status_code \in 400..499 /\ r.status_code # 429
TransportError(r) ==
    r.kind = "error" \/ (r.kind = "status" /\ r.ending = "error")
StreamOver == stream_pc \in {"returned", "raised"}

\* C13: one call of generate_stream sends at most 3 requests, each further
\* request follows a transport timeout, a 429 or a 5xx, after a wait of 1 s
\* before the second and 2 s before the third request and no wait after the
\* third failure, and the call always ends: it returns after the stream of a
\* 200 response is read to its end, or it raises LLMError.
C13_BoundedRetries ==
    /\ [](/\ Len(requests) <= 3
          /\ \A i \in 1..(Len(requests) - 1) :
                TransportTimeout(requests[i]) \/ Status429Or5xx(requests[i])
          /\ sleeps \in {<<>>, <<1>>, <<1, 2>>}
          /\ Len(sleeps) = IF stream_pc = "request" THEN Len(requests)
                           ELSE Max(0, Len(requests) - 1)
          /\ stream_pc = "returned" =>
                /\ requests[Len(requests)].status_code = 200
                /\ requests[Len(requests)].ending = "done"
                /\ ~raised.raised
          /\ stream_pc = "raised" => raised.raised)
    /\ (stream_pc = "request" ~> StreamOver)

\* a timeout, a 429 and a 503: three requests, waits of 1 s and 2 s, LLMError
C13_Witness ==
    /\ stream_pc = "raised"
    /\ Len(requests) = 3
    /\ requests[1].kind = "timeout"
    /\ requests[2].status_code = 429
    /\ requests[3].status_code = 503
    /\ sleeps = <<1, 2>>
    /\ raised.detail = "error after retries"


C15_NoRetryAfterFirstChunk ==
    /\ \A i \in 1..Len(yielded) : yielded[i][1] = Len(requests)
    /\ yielded # <<>> => stream_pc # "request"
    /\ \A i, j \in 1..Len(yielded) : i # j => yielded[i][2] # yielded[j][2]
    /\ (/\ yielded # <<>>
        /\ stream_pc = "raised") => requests[Len(requests)].ending \in {"timeout", "error"}


\* the provider a tag names, and the providers whose credential is present
ProviderOfTag(tag) ==
    IF tag \in {"anthropic", "Anthropic", "ANTHROPIC"} THEN "AnthropicProvider"
    ELSE IF tag \in {"openai", "OpenAI", "OPENAI"} THEN "OpenAIProvider"
    ELSE IF tag \in {"google", "Google", "GOOGLE"} THEN "GoogleGeminiProvider"
    ELSE "none"
WithCredential(st) ==
    {p \in {"AnthropicProvider", "OpenAIProvider", "GoogleGeminiProvider"} :
        \/ p = "AnthropicProvider" /\ st.anthropic_api_key # ""
        \/ p = "OpenAIProvider" /\ st.openai_api_key # ""
        \/ p = "GoogleGeminiProvider" /\ st.google_api_key # ""}
PriorityOrder == <<"AnthropicProvider", "OpenAIProvider", "GoogleGeminiProvider">>

\* C16: get_llm_provider returns the preferred provider when its credential
\* is present, otherwise the first provider with a credential in the order
\* anthropic, openai, google, and raises LLMError when there is no
\* credential; the provider it returns always has a credential.
C16_ProviderChoice ==
    llm # "" =>
        LET preferred == ProviderOfTag(settings.llm_provider)
            present == WithCredential(settings)
        IN  /\ preferred \in present => llm = preferred
            /\ (preferred \notin present /\ present # {}) =>
                  \E i \in 1..3 : /\ llm = PriorityOrder[i]
                                  /\ PriorityOrder[i] \in present
                                  /\ \A j \in 1..(i - 1) : PriorityOrder[j] \notin present
            /\ present = {} <=> llm = "LLMError"
            /\ llm # "LLMError" => llm \in present

\* google is preferred and has no key, neither has anthropic: openai is returned
C16_Witness ==
    /\ settings.llm_provider = "google"
    /\ settings.google_api_key = ""
    /\ settings.anthropic_api_key = ""
    /\ settings.openai_api_key # ""
    /\ llm = "OpenAIProvider"
    /\ stream_pc = "configured"


\* the session id of the frame names a session of the sender
OwnedSession(sessions, f) ==
    /\ f.session_id \notin {NoSessionId, BadSessionId}
    /\ f.session_id \in DOMAIN sessions
    /\ sessions[f.session_id] = TheUser

MessagesIn(view, owner) ==
    SelectSeq(view.msgs, LAMBDA m : view.sessions[m.session_id] = owner)

\* C17: every message the connection of a user stores is in a session of
\* that user; a frame whose session_id is missing, malformed, unknown or of
\* another user gets exactly one new session of the sender, a frame with an
\* owned session_id gets that session and creates none, and the sessions and
\* messages of the other user are never changed.
C17_MessagesInOwnSessions ==
    [][ /\ \A m \in Range(db'.msgs) :
              /\ m.session_id \in DOMAIN db'.sessions
              /\ m.turn > 0 => db'.sessions[m.session_id] = TheUser
        /\ SubSeq(db'.sessions, 1, Len(db.sessions)) = db.sessions
        /\ MessagesIn(db', OtherUser) = MessagesIn(db, OtherUser)
        /\ (pc = "validate" /\ db'.msgs # db.msgs) =>
              LET m == db'.msgs[Len(db'.msgs)]
              IN  /\ Len(db'.msgs) = Len(db.msgs) + 1
                  /\ m.role = "user"
                  /\ IF OwnedSession(db.sessions, frame)
                     THEN /\ db'.sessions = db.sessions
                          /\ m.session_id = frame.session_id
                     ELSE /\ db'.sessions = Append(db.sessions, TheUser)
                          /\ m.session_id = Len(db.sessions) + 1
        /\ pc # "validate" => db'.sessions = db.sessions ]_vars

\* the first frame got a new session beside the session of the other user;
\* the second frame named that new session and was stored in it
C17_Witness ==
    /\ nframes = 2
    /\ pc = "pedagogy"
    /\ frame.session_id = 2
    /\ db.sessions = <<OtherUser, TheUser>>
    /\ \E m1, m2 \in Range(db.msgs) :
          /\ m1.turn = 1 /\ m1.session_id = 2
          /\ m2.turn = 2 /\ m2.session_id = 2 /\ m2.role = "user"
    /\ MessagesIn(db, OtherUser) = InitDb.msgs


\* C18: there is at most one DailyTokenUsage row per (user, date), also when
\* two connections of a user call get_daily_usage at once on a day that has
\* no row yet, and every call of get_daily_usage returns the row of its user
\* and day: the stored row when there is one, else a new row with both
\* counters 0.
C18_OneRowReturned ==
    /\ \A u \in Users, d \in Days : Len(SelectUsageRows(u, d)) <= 1
    /\ \A c \in DOMAIN conns :
          /\ conns[c].pc # "raised"
          /\ conns[c].pc = "returned" =>
                /\ SameKey(conns[c].usage, conns[c].user_id, today)
                /\ IF conns[c].added
                   THEN /\ conns[c].usage.input_tokens_used = 0
                        /\ conns[c].usage.output_tokens_used = 0
                   ELSE conns[c].usage \in Range(daily_token_usage)


\* C19: every attachment id stored on the user message of a turn names an
\* UploadedFile row that exists, belongs to the sender and has expires_at not
\* earlier than the moment the message is committed, also when the clock
\* advances between the upload lookup and the commit of the turn.
C19_AttachmentsValidAtCommit ==
    [][ (pc = "validate" /\ db'.msgs # db.msgs) =>
            \A id \in Range(db'.msgs[Len(db'.msgs)].attachments) :
                /\ id \in DOMAIN UploadedFiles
                /\ UploadedFiles[id].user_id = TheUser
                /\ UploadedFiles[id].expires_at >= today' ]_vars


\* ---------------------------------------------------------------- C20
\* the checks of lines 192-212, stated on the upload alone
FailsValidation(f) ==
    LET ext == _normalise_extension(f.ext)
        is_image == ext \in IMAGE_EXTENSIONS
        is_document == ext \in DOCUMENT_EXTENSIONS
    IN  \/ ~is_image /\ ~is_document
        \/ f.size = 0
        \/ is_image /\ f.size > max_image_bytes
        \/ is_document /\ f.size > max_document_bytes
        \/ ext = ".ipynb" /\ ~f.json_ok
        \/ is_document /\ _estimate_tokens(f.text_len) > max_document_tokens

BatchPaths == {<<"upload", i>> : i \in 1..Len(files)}

AssistantMessages(socket) ==
    {m \in store.msgs : m.role = "assistant" /\ m.socket = socket}

\* C21: every stored assistant message, canned or generated, has a user
\* message of the same session with an earlier created_at, whatever the two
\* connections and the owner's delete have done so far.
C21_AssistantAfterUser ==
    \A m \in store.msgs :
        m.role = "assistant" =>
            \E u \in store.msgs :
                /\ u.role = "user"
                /\ u.session_id = m.session_id
                /\ u.created_at < m.created_at

\* both connections have stored an answer in the shared session, one of them
\* canned and one generated, and the generated one began before the canned
\* one and was committed after it
C21_Witness ==
    /\ \A c \in Sockets :
          \E m \in AssistantMessages(c) : m.session_id = SharedSession
    /\ commits.last = 1
    /\ commits.input_tokens = count_tokens(Question.len)
    /\ \E m1 \in AssistantMessages(1), m2 \in AssistantMessages(2) :
          m1.created_at < m2.created_at


\* ------------------------------------------------------------------- C22
Levels == 100..500
HintLevels == 1..4
Difficulties == 1..5

DecisionInRange(hint, pdiff, mdiff) ==
    hint \in HintLevels /\ pdiff \in Difficulties /\ mdiff \in Difficulties

C23_ContextWithinBudget ==
    (context # <<>> /\ context.pc = "built") =>
        TotalTokens(context.messages) <= context.max_context_tokens


\* ------------------------------------------------------------------- C24
\* C24: the events of a turn that ends with a done event are one session
\* event, at least one token event and the done event, in this order
C24_TokenBeforeDone ==
    \A i \in 1..Len(events) : events[i].type = "done" =>
        \E j \in 1..(i - 2) :
            /\ events[j].type = "session"
            /\ \A k \in (j + 1)..(i - 1) : events[k].type = "token"


\* ------------------------------------------------------------------- C25
\* C25: the daily usage counters equal the counters before the turns plus the
\* input and output tokens of every turn committed by either connection
C25_NoLostIncrement ==
    /\ store.usage.input_tokens_used =
           InitStore.usage.input_tokens_used + commits.input_tokens
    /\ store.usage.output_tokens_used =
           InitStore.usage.output_tokens_used + commits.output_tokens


\* ------------------------------------------------------------------- C26
LevelsOf(r) == <<r.effective_programming_level, r.effective_maths_level>>

\* the levels a StudentState is built with from the user row
LevelsFromRow(row) ==
    <<IF row.effective_programming_level # None
      THEN row.effective_programming_level ELSE programming_level * 100,
      IF row.effective_maths_level # None
      THEN row.effective_maths_level ELSE maths_level * 100>>

\* C26: a StudentState is built from the user row when its connection opens
\* (the effective level if set, else the self-reported level), changes only
\* in a step of its own connection, and a commit of a turn leaves in the user
\* row the levels of the StudentState of the connection that commits; nothing
\* else changes the row's levels, so the last commit wins
C26_StudentStatePrivateLastWriterWins ==
    [][ /\ \A c \in Sockets :
             /\ (sockets[c].pc = "connect" /\ sockets'[c].pc = "recv") =>
                    LevelsOf(sockets'[c].student_state) = LevelsFromRow(store)
             /\ sockets'[c].student_state # sockets[c].student_state =>
                    /\ sockets[c].pc \in {"connect", "stream"}
                    /\ sockets'[c].pc # sockets[c].pc
                    /\ \A o \in Sockets \ {c} : sockets'[o] = sockets[o]
        /\ commits' # commits =>
               LevelsOf(store') = LevelsOf(sockets[commits'.last].student_state)
        /\ LevelsOf(store') # LevelsOf(store) => commits' # commits
      ]_vars

\* both connections have committed a turn, the second after the first; the
\* row holds the levels of the second, which differ from those of the first
C26_Witness ==
    /\ AssistantMessages(1) # {}
    /\ AssistantMessages(2) # {}
    /\ commits.last = 2
    /\ LevelsOf(store) = LevelsOf(sockets[2].student_state)
    /\ LevelsOf(store) # LevelsOf(sockets[1].student_state)
    /\ sockets[1].student_state.effective_programming_level >
           sockets[2].student_state.effective_programming_level


\* ------------------------------------------------------------------- C27
\* C27: under any interleaving of the calls of _get_services the embedding
\* service is constructed and initialised at most once, exactly once when a call has returned,
\* and no call returns a service whose initialize() has not completed
C27_OneShotInitialisation ==
    /\ _embedding_service.constructed <= 1
    /\ _embedding_service.initialised <= 1
    /\ \A k \in Callers : callers[k].pc = "returned" =>
           /\ callers[k].received = "ready"
           /\ _embedding_service.initialised = 1


OwnsNamedSession(call, sessions) ==
    /\ call.session_id \in DOMAIN sessions
    /\ sessions[call.session_id] = call.caller

MessagesOfSession(msgs, session_id) == {m \in msgs : m.session_id = session_id}

\* C29: delete_session and get_session_messages called for a session the
\* caller does not own, or for an unknown id, answer 404, delete nothing and
\* return no message; called by the owner, get_session_messages returns the
\* messages of that session and delete_session removes the session and all its
\* messages and leaves every other session and its messages unchanged
C29_OwnershipEnforced ==
    [][ rest' # rest =>
            IF ~OwnsNamedSession(rest', store.sessions)
            THEN /\ rest'.status = 404
                 /\ rest'.returned = {}
                 /\ store' = store
            ELSE /\ rest'.status = 200
                 /\ rest'.op = "messages" =>
                        /\ store' = store
                        /\ rest'.returned = MessagesOfSession(store.msgs, rest'.session_id)
                 /\ rest'.op = "delete" =>
                        /\ store'.sessions[rest'.session_id] = Deleted
                        /\ MessagesOfSession(store'.msgs, rest'.session_id) = {}
                        /\ DOMAIN store'.sessions = DOMAIN store.sessions
                        /\ \A s \in DOMAIN store.sessions \ {rest'.session_id} :
                               /\ store'.sessions[s] = store.sessions[s]
                               /\ MessagesOfSession(store'.msgs, s) =
                                      MessagesOfSession(store.msgs, s)
                        /\ store'.usage = store.usage
                        /\ LevelsOf(store') = LevelsOf(store)
      ]_vars

\* the owner has deleted the shared session after a turn was committed to it:
\* the session and its messages are gone, the other user's session and its
\* two messages are there
C29_Witness ==
    /\ rest.op = "delete"
    /\ rest.caller = TheUser
    /\ rest.session_id = SharedSession
    /\ rest.status = 200
    /\ sockets[1].session_id = SharedSession
    /\ sockets[1].pc = "recv"
    /\ commits.last = 1
    /\ store.sessions[SharedSession] = Deleted
    /\ MessagesOfSession(store.msgs, SharedSession) = {}
    /\ store.sessions[ForeignSession] = OtherUser
    /\ Cardinality(MessagesOfSession(store.msgs, ForeignSession)) = 2


\* ------------------------------------------------------------------- C30
\* a data event that is well formed and carries a non-empty text
CarriesText(line) ==
    line.prefix /\ line.payload = "object" /\ line.delta /\ line.text # ""

\* the texts of the well-formed data events before the first end sentinel
RECURSIVE TextsBeforeDone(_)
TextsBeforeDone(body) ==
    IF body = <<>> THEN <<>>
    ELSE IF Head(body).prefix /\ Head(body).payload = "[DONE]" THEN <<>>
    ELSE IF CarriesText(Head(body)) THEN <<Head(body).text>> \o TextsBeforeDone(Tail(body))
    ELSE TextsBeforeDone(Tail(body))

\* C30: when generate_stream has finished with a body, the chunks it yielded
\* are, in body order, the non-empty texts of the well-formed data events
\* before the first [DONE]; every other line is passed over without an error
C30_ChunksAreTextsBeforeDone ==
    (decode # <<>> /\ decode.pc # "lines") =>
        /\ decode.pc = "returned"
        /\ decode.chunks = TextsBeforeDone(decode.body)


\* ------------------------------------------------------------------- C31
ImagesOf(batch) ==
    {i \in 1..Len(batch) : _normalise_extension(batch[i].ext) \in IMAGE_EXTENSIONS}
DocumentsOf(batch) ==
    {i \in 1..Len(batch) : _normalise_extension(batch[i].ext) \in DOCUMENT_EXTENSIONS}

\* C31: a batch save_uploaded_files returns is not empty, holds at most
\* max_images images and max_documents documents, every file of it has a
\* whitelisted extension (whatever its case), is not empty and not above the
\* size cap of its type, the text of every document weighs at most
\* max_document_tokens by max(1, len / 4), and every row of the batch expires
\* at now + upload_expiry_hours
C31_ReturnedBatchWithinLimits ==
    upload_pc = "returned" =>
        /\ Len(files) > 0
        /\ Len(saved_files) = Len(files)
        /\ Cardinality(ImagesOf(files)) <= upload_max_images_per_message
        /\ Cardinality(DocumentsOf(files)) <= upload_max_documents_per_message
        /\ \A i \in 1..Len(files) :
               /\ i \in ImagesOf(files) \cup DocumentsOf(files)
               /\ files[i].size > 0
               /\ i \in ImagesOf(files) => files[i].size <= max_image_bytes
               /\ i \in DocumentsOf(files) =>
                      /\ files[i].size <= max_document_bytes
                      /\ Max(1, files[i].text_len \div 4) <= max_document_tokens
               /\ saved_files[i].expires_at = today + upload_expiry_hours
               /\ saved_files[i] \in uploaded_file_rows

\* a returned batch at the caps: two images, one of them with an upper-case
\* extension, and one document
C31_Witness ==
    /\ upload_pc = "returned"
    /\ Len(files) = upload_max_images_per_message + upload_max_documents_per_message
    /\ files[1].ext = ".PNG"
    /\ Cardinality(DocumentsOf(files)) = upload_max_documents_per_message
    /\ \E i \in DocumentsOf(files) : files[i].ext = ".Txt"


\* ------------------------------------------------------------------- C32
\* the text the user typed in a stored user message
TypedLen(m) == IF m.content = SentAttachmentsText THEN 0 ELSE m.content.len

\* the estimate of a stored user message: max(1, floor(len / 4)) of its
\* enriched text plus 512 for every image it references
EstimateOf(m) ==
    LET split == _split_uploads(m.attachments)
    IN  Max(1, _build_enriched_message(TypedLen(m), split[2]) \div 4) + 512 * Len(split[1])

StoredUserMessagesEstimated ==
    \A i \in 1..Len(db.msgs) :
        (db.msgs[i].role = "user" /\ db.msgs[i].turn # 0) =>
            /\ db.msgs[i].input_tokens = EstimateOf(db.msgs[i])
            /\ db.msgs[i].input_tokens <= llm_max_user_input_tokens
            /\ Len(_split_uploads(db.msgs[i].attachments)[1]) <= upload_max_images_per_message
            /\ Len(_split_uploads(db.msgs[i].attachments)[2]) <= upload_max_documents_per_message

\* the handler leaves a frame whose estimate is above the limit
OversizeTurnRejected ==
    (/\ pc = "validate"
     /\ pc' # "validate"
     /\ frame.json_ok
     /\ ParseFrame(frame, tx.usage, user, today).input_tokens > llm_max_user_input_tokens) =>
        /\ db' = db
        /\ ~clientGone =>
               /\ Len(events') = Len(events) + 1
               /\ events'[Len(events')].type = "error"

\* C32: every stored user message carries input_tokens = count_tokens of its
\* enriched text + 512 per image, at most llm_max_user_input_tokens, and
\* references at most max_images images and max_documents documents; a turn
\* whose estimate is above the limit sends an error event and stores nothing
C32_InputEstimateStoredAndBounded ==
    [](StoredUserMessagesEstimated) /\ [][OversizeTurnRejected]_vars

\* a user message with a document and one with an image are stored, and a
\* frame with two images was rejected as too large
C32_Witness ==
    /\ \E i \in 1..Len(db.msgs) :
           /\ db.msgs[i].role = "user"
           /\ db.msgs[i].attachments = <<"doc1">>
           /\ db.msgs[i].input_tokens = 19
    /\ \E i \in 1..Len(events) : events[i] = ErrorEvent(MsgFilesTooLarge)
    /\ db = tx
    /\ pc = "recv"


\* ------------------------------------------------------------------- C33
\* the event a step sends, when it sends one
SendsEvent(type) ==
    /\ Len(events') = Len(events) + 1
    /\ events'[Len(events')].type = type

\* the committed database holds the assistant message of the current turn
\* with the fields of the event e, the usage row of the day and the levels
CommittedAnswerMatches(committed, e) ==
    /\ \E i \in 1..Len(committed.msgs) :
           /\ committed.msgs[i].turn = nframes
           /\ committed.msgs[i].role = "assistant"
           /\ committed.msgs[i].output_tokens # None
           /\ committed.msgs[i].hint_level_used = e.hint_level
           /\ committed.msgs[i].problem_difficulty = e.programming_difficulty
           /\ committed.msgs[i].maths_difficulty = e.maths_difficulty
    /\ \E r \in committed.usage : r.user_id = user /\ r.output_tokens_used > 0
    /\ committed.effective_programming_level = student_state.effective_programming_level
    /\ committed.effective_maths_level = student_state.effective_maths_level

\* the committed database holds the user message of the current turn in the
\* session the event e names, and that session belongs to the user
CommittedQuestionIn(committed, e) ==
    /\ e.session_id \in DOMAIN committed.sessions
    /\ committed.sessions[e.session_id] = user
    /\ \E i \in 1..Len(committed.msgs) :
           /\ committed.msgs[i].turn = nframes
           /\ committed.msgs[i].role = "user"
           /\ committed.msgs[i].session_id = e.session_id

DoneFollowsCommit ==
    SendsEvent("done") =>
        /\ CommittedAnswerMatches(db, events'[Len(events')])
        /\ db' = db
        /\ tx = db

SessionFollowsCommit ==
    SendsEvent("session") =>
        /\ CommittedQuestionIn(db', events'[Len(events')])
        /\ tx' = db'

\* C33: the done event is sent only when the assistant message, the usage
\* increment and the levels of the turn are committed, and its hint level and
\* difficulties are those stored on that message; the session event is sent
\* only when the user message is committed, and carries the id of the session
\* that holds it
C33_EventsFollowCommits == [][DoneFollowsCommit /\ SessionFollowsCommit]_vars

\* both events of one turn have been sent
C33_Witness ==
    /\ pc = "recv"
    /\ Len(events) >= 2
    /\ events[Len(events)].type = "done"
    /\ \E i \in 1..Len(events) : events[i].type = "session" /\ events[i].session_id = turn.session_id
    /\ CommittedAnswerMatches(db, events[Len(events)])


\* ------------------------------------------------------------------- C34
\* the position of the last session event, 0 when there is none
LastSessionEvent ==
    LET at == {i \in 1..Len(events) : events[i].type = "session"}
    IN  IF at = {} THEN 0 ELSE CHOOSE i \in at : \A j \in at : j <= i

IsTokenEvent(e) == e.type = "token"

\* the texts of the token events of the current turn, in the order sent
TurnTokens ==
    LET sent == SelectSeq(SubSeq(events, LastSessionEvent + 1, Len(events)), IsTokenEvent)
    IN  [i \in 1..Len(sent) |-> sent[i].content.len]

\* C34: the content of the stored generated assistant message of a turn is
\* the concatenation, in order, of the contents of the token events of that
\* turn, and its output_tokens is count_tokens of that content
C34_StoredAnswerIsTokensJoined ==
    \A i \in 1..Len(db.msgs) :
        (/\ db.msgs[i].turn = nframes
         /\ db.msgs[i].role = "assistant"
         /\ db.msgs[i].output_tokens # None) =>
            /\ turn.full_response = TurnTokens
            /\ db.msgs[i].content = Text("generated", SumSeq(TurnTokens))
            /\ db.msgs[i].output_tokens = Max(1, SumSeq(TurnTokens) \div 4)

\* an answer of two different chunks is stored, and one of no chunk
C34_Witness ==
    /\ TurnTokens = <<3, 6>>
    /\ \E i \in 1..Len(db.msgs) :
           /\ db.msgs[i].turn = nframes
           /\ db.msgs[i].content = Text("generated", 9)
           /\ db.msgs[i].output_tokens = 2
    /\ \E i \in 1..Len(db.msgs) :
           /\ db.msgs[i].turn < nframes
           /\ db.msgs[i].content = Text("generated", 0)
           /\ db.msgs[i].output_tokens = 1


\* ------------------------------------------------------------------- C35
\* the turns of the user whose generated assistant message is committed
GeneratedTurns ==
    {db.msgs[i].turn : i \in {j \in 1..Len(db.msgs) :
        db.msgs[j].role = "assistant" /\ db.msgs[j].output_tokens # None}}

\* the input estimates and the output counts of the turns in GeneratedTurns
RECURSIVE ChargedInput(_)
ChargedInput(n) ==
    IF n = 0 THEN 0
    ELSE ChargedInput(n - 1) +
         (IF db.msgs[n].role = "user" /\ db.msgs[n].turn \in GeneratedTurns
          THEN db.msgs[n].input_tokens ELSE 0)

RECURSIVE ChargedOutput(_)
ChargedOutput(n) ==
    IF n = 0 THEN 0
    ELSE ChargedOutput(n - 1) +
         (IF db.msgs[n].role = "assistant" /\ db.msgs[n].output_tokens # None
          THEN db.msgs[n].output_tokens ELSE 0)

\* the committed counters of the user, over the days
RECURSIVE UsedInput(_)
UsedInput(rows) ==
    IF rows = {} THEN 0
    ELSE LET r == CHOOSE x \in rows : TRUE
         IN  r.input_tokens_used + UsedInput(rows \ {r})

RECURSIVE UsedOutput(_)
UsedOutput(rows) ==
    IF rows = {} THEN 0
    ELSE LET r == CHOOSE x \in rows : TRUE
         IN  r.output_tokens_used + UsedOutput(rows \ {r})

LastGeneratedTurn == CHOOSE t \in GeneratedTurns : \A u \in GeneratedTurns : u <= t

\* C35: in every committed state the generated assistant messages, the usage
\* increments and the level write-backs are those of the same turns: the
\* counters are the sums over the turns whose generated message is stored,
\* and the stored levels are those of the last such turn
C35_PostStreamWritesAtomic ==
    /\ UsedInput(db.usage) = ChargedInput(Len(db.msgs))
    /\ UsedOutput(db.usage) = ChargedOutput(Len(db.msgs))
    /\ (GeneratedTurns = {}) <=> (db.effective_programming_level = None)
    /\ (GeneratedTurns = {}) <=> (db.effective_maths_level = None)
    /\ (GeneratedTurns # {} /\ student_state.context_turn = LastGeneratedTurn) =>
           /\ db.effective_programming_level = student_state.effective_programming_level
           /\ db.effective_maths_level = student_state.effective_maths_level

\* a first turn is committed whole and the store fails in the post-stream
\* section of the second
C35_Witness ==
    /\ closedAt = "store"
    /\ nframes = 2
    /\ outcome[2].stream = "ok"
    /\ GeneratedTurns = {1}
    /\ student_state.context_turn = 2
    /\ UsedOutput(db.usage) > 0


\* ------------------------------------------------------------------- C36
\* the handler leaves the validation of a frame it does not accept
RejectsFrame ==
    /\ pc = "validate"
    /\ pc' # "validate"
    /\ ParseFrame(frame, tx.usage, user, today).verdict \notin {"ok", "skip"}

NoSessionEventSent ==
    \/ events' = events
    \/ /\ Len(events') = Len(events) + 1
       /\ SubSeq(events', 1, Len(events)) = events
       /\ events'[Len(events')].type = "error"

\* C36: a turn rejected before its user message is stored leaves the
\* committed database as it was (no session, no message, no usage row: the
\* row check_daily_limit flushed is rolled back) and sends no session event
C36_RejectedTurnLeavesNoTrace ==
    [][RejectsFrame => (db' = db /\ tx' = db /\ NoSessionEventSent)]_vars

\* the first frame of a day is rejected for an expired attachment, after
\* check_daily_limit has created the usage row in the open transaction
C36_Witness ==
    /\ pc = "recv"
    /\ nframes = 1
    /\ frame.json_ok
    /\ ParseFrame(frame, db.usage, user, today).verdict = MsgInaccessible
    /\ get_daily_usage(db.usage, user, today) # db.usage
    /\ outcome[1].status = "rejected"
    /\ events = <<ErrorEvent(MsgInaccessible)>>
    /\ db = InitDb


\* ------------------------------------------------------------------- C37
LevelsWritten(committed) ==
    \/ committed.effective_programming_level # None
    \/ committed.effective_maths_level # None

\* the step that ends a canned turn: the counters of every day are those of
\* the start of the turn, the levels of the user row and the student state
\* are untouched, and the one message it adds carries no decision and no count
CannedTurnAdaptsNothing ==
    (pc = "pedagogy" /\ pc' = "recv" /\ outcome'[nframes].status = "canned") =>
        /\ SameCounters(db'.usage, turn.usage0)
        /\ db'.effective_programming_level = db.effective_programming_level
        /\ db'.effective_maths_level = db.effective_maths_level
        /\ student_state' = student_state
        /\ student_state.context_turn # nframes
        /\ Len(db'.msgs) = Len(db.msgs) + 1
        /\ LET m == db'.msgs[Len(db'.msgs)]
           IN  /\ m.turn = nframes
               /\ m.role = "assistant"
               /\ m.hint_level_used = None
               /\ m.problem_difficulty = None
               /\ m.maths_difficulty = None
               /\ m.output_tokens = None

\* the levels of the user row change only in the post-stream commit
LevelsWrittenByPostStreamOnly ==
    (\/ db'.effective_programming_level # db.effective_programming_level
     \/ db'.effective_maths_level # db.effective_maths_level) =>
        /\ pc = "post"
        /\ pc' = "done"
        /\ \E m \in MessagesOf(db'.msgs, nframes, "assistant") : m.output_tokens # None

\* C37 as stated: a canned turn leaves the counters, the levels and the
\* student state unchanged and stores its message without decision or count,
\* and the levels of the user row are written only by a turn that ends with done
C37_LevelsWrittenOnlyWithDone ==
    (pc \in {"recv", "closed"} /\ LevelsWritten(db)) =>
        \E t \in 1..nframes : outcome[t].status = "done"

\* C37 amended: a canned turn leaves the counters, the levels and the student
\* state unchanged and stores its message without decision or count; the
\* levels of the user row are written only by the post-stream commit of a turn,
\* which ends with done or with a disconnect met at the send of done
C37_CannedTurnAdaptsNothing ==
    /\ [][CannedTurnAdaptsNothing /\ LevelsWrittenByPostStreamOnly]_vars
    /\ []((pc \in {"recv", "closed"} /\ LevelsWritten(db)) =>
             \E t \in 1..nframes :
                 \/ outcome[t].status = "done"
                 \/ outcome[t].status = "disconnected" /\ closedAt = "done")

\* a canned turn follows a turn that ended with done
C37_Witness ==
    /\ pc = "recv"
    /\ nframes = 2
    /\ outcome[1].status = "done"
    /\ outcome[2].status = "canned"
    /\ LevelsWritten(db)
    /\ student_state.context_turn = 1
    /\ \E m \in MessagesOf(db.msgs, 2, "assistant") : m.output_tokens = None


\* ------------------------------------------------------------------- C38
AtDailyLimit(rows, d) ==
    \/ InputUsed(rows, d) >= user_daily_input_token_limit
    \/ OutputUsed(rows, d) >= user_daily_output_token_limit

ExhaustedDayStaysPut ==
    \A d \in Days :
        AtDailyLimit(db.usage, d) =>
            /\ InputUsed(db'.usage, d) = InputUsed(db.usage, d)
            /\ OutputUsed(db'.usage, d) = OutputUsed(db.usage, d)

\* C38: the quota is checked at the start of a turn only, so on one
\* connection the input counter of a day stays below the daily input limit
\* plus llm_max_user_input_tokens, and once a counter of a day has reached its
\* limit no later turn increases either counter of that day
C38_QuotaOvershootBounded ==
    /\ [](\A d \in Days :
             InputUsed(db.usage, d) < user_daily_input_token_limit + llm_max_user_input_tokens)
    /\ [][ExhaustedDayStaysPut]_vars

\* the first turn brought the output counter to its limit and the second turn
\* of the day was refused
C38_Witness ==
    /\ pc = "recv"
    /\ nframes = 2
    /\ outcome[1].status = "done"
    /\ outcome[2].status = "rejected"
    /\ events = <<ErrorEvent(MsgDailyLimit)>>
    /\ OutputUsed(db.usage, today) = user_daily_output_token_limit
    /\ InputUsed(db.usage, today) < user_daily_input_token_limit

\* the second turn of a day started below the input limit and ended above it
InputLimitOvershot ==
    \E d \in Days : InputUsed(db.usage, d) > user_daily_input_token_limit


\* ------------------------------------------------------------------- C39
\* m is the user message connection c saved in its current turn
IsJustSaved(c, m) ==
    /\ m.role = "user"
    /\ m.socket = c
    /\ m.session_id = sockets[c].session_id
    /\ \A n \in store.msgs : (n.role = "user" /\ n.socket = c) => n.created_at <= m.created_at

\* C39: the history given to the context builder is the stored messages of
\* the session in chronological order with exactly the user message of this
\* turn removed, also when another connection of the user has written to the
\* session since that message was committed
C39_HistoryDropsOwnMessageOnly ==
    [][\A c \in Sockets :
          (sockets[c].pc = "decide" /\ sockets'[c].pc = "stream") =>
              sockets'[c].chat_history =
                  SelectSeq(StoredHistory(store.msgs, sockets[c].session_id),
                            LAMBDA m : ~IsJustSaved(c, m))]_vars


\* ------------------------------------------------------------------- C40
\* the upload id belongs to user_id and is not expired at now
ResolvesFor(user_id, id, now) ==
    /\ id \in DOMAIN UploadedFiles
    /\ UploadedFiles[id].user_id = user_id
    /\ UploadedFiles[id].expires_at >= now

\* uploads is a list of rows of user_id unexpired at now, in the order of ids
OwnUnexpiredInOrder(uploads, ids, user_id, now) ==
    /\ \A k \in 1..Len(uploads) : ResolvesFor(user_id, uploads[k], now)
    /\ uploads = SelectSeq(ids, LAMBDA id : id \in Range(uploads))

\* the lookup of the frame being validated, for either user and any day
LookupOwnUnexpired ==
    (pc = "validate" /\ frame.json_ok) =>
        \A user_id \in Users, now \in Days :
            LET upload_ids == _parse_upload_ids(frame.upload_ids)
                uploads == get_user_uploads_by_ids(user_id, upload_ids, now)
            IN  /\ OwnUnexpiredInOrder(uploads, upload_ids, user_id, now)
                /\ (Len(uploads) = Len(upload_ids)) <=>
                       (\A k \in 1..Len(upload_ids) : ResolvesFor(user_id, upload_ids[k], now))

\* the attachments get_session_messages returns with a stored message
HistoryOwnUnexpired ==
    \A i \in 1..Len(db.msgs) : \A user_id \in Users, now \in Days :
        OwnUnexpiredInOrder(message_attachments(user_id, db.msgs[i].attachments, now),
                            db.msgs[i].attachments, user_id, now)

\* a frame that names an upload of another user, an expired one or an unknown
\* id is answered with an error and nothing of it is stored
UnresolvedTurnRejected ==
    (/\ pc = "validate"
     /\ pc' # "validate"
     /\ frame.json_ok
     /\ frame.upload_ids.is_list
     /\ \E k \in 1..Len(frame.upload_ids.ids) :
            ~ResolvesFor(user, frame.upload_ids.ids[k], today)) =>
        /\ db' = db
        /\ ~clientGone =>
               /\ Len(events') = Len(events) + 1
               /\ events'[Len(events')].type = "error"

\* C40: get_user_uploads_by_ids and get_session_messages return only uploads
\* of the requesting user that are not expired at the call;
\* get_user_uploads_by_ids returns them in the order of the request and as
\* many as requested only if every id resolved; a turn that names another
\* user's upload, an expired upload or an unknown id is rejected with an error
C40_LookupsStayWithinUserAndExpiry ==
    /\ [](LookupOwnUnexpired /\ HistoryOwnUnexpired)
    /\ [][UnresolvedTurnRejected]_vars

\* a message was stored with an attachment on the day it expires; the next
\* day the history no longer returns the attachment and a frame naming the
\* upload of another user is rejected
C40_Witness ==
    /\ pc = "recv"
    /\ nframes = 2
    /\ today = 1
    /\ frame.upload_ids.ids = <<"othr">>
    /\ events = <<ErrorEvent(MsgInaccessible)>>
    /\ \E i \in 1..Len(db.msgs) :
           /\ db.msgs[i].attachments = <<"old1">>
           /\ message_attachments(user, db.msgs[i].attachments, 0) = <<"old1">>
           /\ message_attachments(user, db.msgs[i].attachments, today) = <<>>

=============================================================================
